---- MODULE Spec2Model ----

(***************************************************************************)
(* Model of the slope-aware bar nesting of api/main.py (generate_nesting). *)
(*                                                                         *)
(* Lengths are integers in units of 0.01 mm (mm(5000) is 5000 mm), so the  *)
(* 0.1 mm tolerance, the 0.01 mm epsilon and the 3 mm kerf of the source   *)
(* are exact.  Angles are whole degrees, confidences are percent.          *)
(* None (Python's None) is modelled by the number None, which no angle,    *)
(* length or stock of the model takes.                                     *)
(*                                                                         *)
(* The sheet nesting of api/polygon_nesting.py (greedy_nesting and         *)
(* nest_plates_on_multiple_stocks) is modelled alongside, with its own     *)
(* next-state relation; plate and sheet dimensions are whole mm.           *)
(***************************************************************************)
EXTENDS Integers, Sequences, FiniteSets, TLC

(***************************************************************************)
(* Bounds of the model.                                                    *)
(***************************************************************************)
\* The largest number of IFC elements (bars) of one request.
MaxParts == 3

\* The largest number of plates of one sheet nesting.
MaxPlates == 3

(***************************************************************************)
(* Program constants.                                                      *)
(***************************************************************************)
mm(x) == x * 100

\* Python's None for an angle or a stock that is not set.
None == -1

\* kerf_mm = 3.0 (in 0.01 mm)
KERF == 300

\* tolerance_mm = 0.1 (in 0.01 mm)
TOLERANCE == 10

\* epsilon = 0.01 (in 0.01 mm)
EPSILON == 1

\* max_iterations = len(parts) * 10
ITERATION_FACTOR == 10

\* gap: float = 5.0 (in mm)
GAP == 5

\* max_sheets: int = 100
MAX_SHEETS == 100

Abs(x) == IF x < 0 THEN -x ELSE x

Min(a, b) == IF a <= b THEN a ELSE b

Max(a, b) == IF a >= b THEN a ELSE b

(***************************************************************************)
(* Inputs: the request's stock lengths and the IFC file's elements.        *)
(***************************************************************************)
\* A cut end as the extractor reports it: angle_deg and confidence (percent).
Cut(angle, conf) == [angle_deg |-> angle, confidence |-> conf]

NoCut == [angle_deg |-> None, confidence |-> 0]

\* The elements an IFC file of the model may hold, each with the length and
\* the end cuts the extractor reports.
ElementKinds ==
    { [profile |-> "IPE400", length |-> mm(5000), start |-> NoCut, end |-> NoCut],
      [profile |-> "IPE400", length |-> mm(5000), start |-> NoCut, end |-> Cut(45, 90)],
      [profile |-> "IPE400", length |-> mm(5000), start |-> Cut(-45, 90), end |-> NoCut],
      [profile |-> "IPE400", length |-> mm(6000), start |-> NoCut, end |-> NoCut],
      [profile |-> "IPE400", length |-> mm(13000), start |-> NoCut, end |-> NoCut],
      [profile |-> "IPE400", length |-> 599705, start |-> NoCut, end |-> NoCut],
      [profile |-> "IPE400", length |-> mm(2000), start |-> Cut(-45, 90), end |-> Cut(42, 90)],
      [profile |-> "HEA200", length |-> mm(3000), start |-> NoCut, end |-> NoCut] }

\* The stock_lengths request parameter, already split at the commas.
StockRequests ==
    { <<>>, <<mm(6000)>>, <<mm(12000), mm(6000)>>, <<mm(12000), mm(6000), mm(8000)>> }

\* The profiles request parameter, already split at the commas.
ProfileRequests == { <<>>, <<"IPE400">>, <<"HEA200">>, <<"IPE400", "HEA200">> }

ElementLists == UNION { [1..n -> ElementKinds] : n \in 0..MaxParts }

\* The end cuts of the study of the slope classification: angles at and
\* next to the limits of both angle conventions, at a confidence of 0.5 and
\* just above it.
SlopeAngles == { 0, 5, 6, -6, 45, 59, 60, 84, 85, 90, 95, 96, 120, 121, -88 }

SlopeCuts == { NoCut } \cup { Cut(a, c) : a \in SlopeAngles, c \in {50, 51} }

SlopeElements == [profile : {"IPE400"}, length : {mm(5000)}, start : SlopeCuts, end : SlopeCuts]

\* The end cuts of the study of the pair geometry: none, too flat to be a
\* slope, sloped at several angles of both signs, beyond the right angle,
\* and of low confidence.
GeometryCuts ==
    { NoCut, Cut(3, 90), Cut(40, 90), Cut(45, 90), Cut(-42, 90), Cut(-45, 90),
      Cut(80, 90), Cut(100, 90), Cut(45, 40) }

GeometryElements ==
    [profile : {"IPE400"}, length : {mm(300), mm(5000)},
     start : GeometryCuts, end : GeometryCuts]

(***************************************************************************)
(* Inputs of the sheet nesting: plates and stock sheets.                   *)
(***************************************************************************)
\* The bounding box (width, length) and the polygon area of the plates: two
\* rectangles of one area, two large ones, a small one, and a long strip with
\* cut-outs.
PlateShapes ==
    { [width |-> 1000, length |-> 500, area |-> 500000],
      [width |-> 500, length |-> 1000, area |-> 500000],
      [width |-> 1400, length |-> 900, area |-> 1260000],
      [width |-> 300, length |-> 300, area |-> 90000],
      [width |-> 1400, length |-> 2000, area |-> 2800000],
      [width |-> 2500, length |-> 400, area |-> 600000] }

\* A PlateGeometry: the shape with the element id of its IfcPlate.
Plate(id, shape) ==
    [element_id |-> id, width |-> shape.width, length |-> shape.length,
     area |-> shape.area]

\* The plates of an IFC file: every IfcPlate has an element id of its own.
PlateLists ==
    UNION { { [n \in 1..k |-> Plate(n, shapes[n])] : shapes \in [1..k -> PlateShapes] } :
            k \in 0..MaxPlates }

\* The stock_configs of a call.
StockConfigLists ==
    { <<>>,
      << [width |-> 1500, length |-> 3000] >>,
      << [width |-> 2000, length |-> 1000], [width |-> 1500, length |-> 3000] >>,
      << [width |-> 1500, length |-> 3000], [width |-> 3000, length |-> 1500] >> }

\* The max_sheets of a call: the default and two small limits.
SheetLimits == { 0, 1, 2, MAX_SHEETS }

\* The gap values greedy_nesting is called with: its default and two others.
Gaps == { 0, GAP, 100 }

(***************************************************************************)
(* Sequence helpers (Python list operations).                              *)
(***************************************************************************)
\* x in xs
InSeq(x, xs) == \E n \in 1..Len(xs) : xs[n] = x

\* xs.remove(x): drops the first element equal to x.
RECURSIVE RemoveFirst(_, _)
RemoveFirst(xs, x) ==
    IF xs = <<>> THEN <<>>
    ELSE IF Head(xs) = x THEN Tail(xs)
    ELSE <<Head(xs)>> \o RemoveFirst(Tail(xs), x)

\* RemoveAll that removes nothing.
RemoveAll_Nothing(xs, ps) == xs

\* for p in ps: if p in xs: xs.remove(p)
RECURSIVE RemoveAll(_, _)
RemoveAll(xs, ps) ==
    IF ps = <<>> THEN xs
    ELSE RemoveAll(IF InSeq(Head(ps), xs) THEN RemoveFirst(xs, Head(ps)) ELSE xs, Tail(ps))

RECURSIVE SumLengths(_)
SumLengths(xs) == IF xs = <<>> THEN 0 ELSE Head(xs).length + SumLengths(Tail(xs))

RECURSIVE MaxLength(_)
MaxLength(xs) ==
    IF Len(xs) = 1 THEN xs[1].length ELSE Max(Head(xs).length, MaxLength(Tail(xs)))

Reverse(xs) == [n \in 1..Len(xs) |-> xs[Len(xs) + 1 - n]]

\* sorted(numbers): ascending insertion sort.
RECURSIVE InsertAsc(_, _)
InsertAsc(xs, x) ==
    IF xs = <<>> THEN <<x>>
    ELSE IF x < Head(xs) THEN <<x>> \o xs
    ELSE <<Head(xs)>> \o InsertAsc(Tail(xs), x)

Front(xs) == SubSeq(xs, 1, Len(xs) - 1)

RECURSIVE SortedAsc(_)
SortedAsc(xs) ==
    IF xs = <<>> THEN <<>> ELSE InsertAsc(SortedAsc(Front(xs)), xs[Len(xs)])

\* The stable descending insertion of list.sort(key=length, reverse=True): a
\* part goes behind every part that is at least as long.
RECURSIVE InsertByLengthDesc(_, _)
InsertByLengthDesc(xs, p) ==
    IF xs = <<>> THEN <<p>>
    ELSE IF p.length > Head(xs).length THEN <<p>> \o xs
    ELSE <<Head(xs)>> \o InsertByLengthDesc(Tail(xs), p)

RECURSIVE SortByLengthDesc(_)
SortByLengthDesc(xs) ==
    IF xs = <<>> THEN <<>>
    ELSE InsertByLengthDesc(SortByLengthDesc(Front(xs)), xs[Len(xs)])

(***************************************************************************)
(* greedy_nesting: row-based placement of plates on one stock sheet.       *)
(***************************************************************************)
\* The stable descending insertion of sorted(key=area, reverse=True).
RECURSIVE InsertByAreaDesc(_, _)
InsertByAreaDesc(xs, p) ==
    IF xs = <<>> THEN <<p>>
    ELSE IF p.area > Head(xs).area THEN <<p>> \o xs
    ELSE <<Head(xs)>> \o InsertByAreaDesc(Tail(xs), p)

RECURSIVE SortByAreaDesc(_)
SortByAreaDesc(xs) ==
    IF xs = <<>> THEN <<>>
    ELSE InsertByAreaDesc(SortByAreaDesc(Front(xs)), xs[Len(xs)])

\* NestingResult.add_plate: one entry of placed_plates.
PlacedPlate(plate, x, y) == [plate |-> plate, x |-> x, y |-> y, rotation |-> 0]

\* The placement state before the first plate.
RowStart(gap) ==
    [placed_plates |-> <<>>, current_x |-> gap, current_y |-> gap, row_height |-> 0]

\* PlaceNext whose row height is the height of the last plate of the row.
PlaceNext_LastHeight(st, plate, stock_width, stock_length, gap) ==
    IF /\ st.current_x + plate.width + gap <= stock_width
       /\ st.current_y + plate.length + gap <= stock_length
    THEN [st EXCEPT !.placed_plates = Append(@, PlacedPlate(plate, st.current_x, st.current_y)),
                    !.current_x = @ + plate.width + gap,
                    !.row_height = plate.length]
    ELSE IF st.current_y + st.row_height + gap + plate.length + gap <= stock_length
    THEN LET y == st.current_y + st.row_height + gap
         IN  IF gap + plate.width + gap <= stock_width
             THEN [placed_plates |-> Append(st.placed_plates, PlacedPlate(plate, gap, y)),
                   current_x |-> gap + plate.width + gap,
                   current_y |-> y, row_height |-> plate.length]
             ELSE [st EXCEPT !.current_x = gap, !.current_y = y,
                             !.row_height = plate.length]
    ELSE st

\* The body of the placement loop for one plate: in the current row, else
\* in a new row, else not at all.
PlaceNext(st, plate, stock_width, stock_length, gap) ==
    IF /\ st.current_x + plate.width + gap <= stock_width
       /\ st.current_y + plate.length + gap <= stock_length
    THEN [st EXCEPT !.placed_plates = Append(@, PlacedPlate(plate, st.current_x, st.current_y)),
                    !.current_x = @ + plate.width + gap,
                    !.row_height = Max(@, plate.length)]
    ELSE IF st.current_y + st.row_height + gap + plate.length + gap <= stock_length
    THEN LET y == st.current_y + st.row_height + gap
         IN  IF gap + plate.width + gap <= stock_width
             THEN [placed_plates |-> Append(st.placed_plates, PlacedPlate(plate, gap, y)),
                   current_x |-> gap + plate.width + gap,
                   current_y |-> y, row_height |-> plate.length]
             ELSE [st EXCEPT !.current_x = gap, !.current_y = y,
                             !.row_height = plate.length]
    ELSE st

\* for plate in sorted_plates
RECURSIVE PlaceAll(_, _, _, _, _)
PlaceAll(st, sorted_plates, stock_width, stock_length, gap) ==
    IF sorted_plates = <<>> THEN st
    ELSE PlaceAll(PlaceNext(st, Head(sorted_plates), stock_width, stock_length, gap),
                  Tail(sorted_plates), stock_width, stock_length, gap)

RECURSIVE SumAreas(_)
SumAreas(placed) ==
    IF placed = <<>> THEN 0 ELSE Head(placed).plate.area + SumAreas(Tail(placed))

\* NestingResult.calculate_utilization: plate area / stock area * 100, as an
\* exact fraction (0 without plates or without stock area).
Utilization(placed, stock_width, stock_length) ==
    IF placed # <<>> /\ stock_width * stock_length > 0
    THEN [num |-> SumAreas(placed) * 100, den |-> stock_width * stock_length]
    ELSE [num |-> 0, den |-> 1]

\* greedy_nesting(plates, stock_width, stock_length, gap): the NestingResult.
GreedyNesting(ps, stock_width, stock_length, gap) ==
    LET st == PlaceAll(RowStart(gap), SortByAreaDesc(ps), stock_width, stock_length, gap)
    IN  [stock_width |-> stock_width, stock_length |-> stock_length, stock_index |-> 0,
         placed_plates |-> st.placed_plates,
         utilization |-> Utilization(st.placed_plates, stock_width, stock_length)]

(***************************************************************************)
(* nest_plates_on_multiple_stocks: the choice of the sheet of an iteration.*)
(***************************************************************************)
\* best_stock_idx after the stocks 1..n are tried (0: no stock placed a
\* plate): the first stock that places the most plates.
RECURSIVE BestStockIdx(_, _, _)
BestStockIdx(ps, configs, n) ==
    IF n = 0 THEN 0
    ELSE LET best == BestStockIdx(ps, configs, n - 1)
             placed(k) == GreedyNesting(ps, configs[k].width, configs[k].length,
                                        GAP).placed_plates
         IN  IF placed(n) # <<>> /\ (best = 0 \/ Len(placed(n)) > Len(placed(best)))
             THEN n ELSE best

\* placed_ids: the element ids of the placed plates.
PlacedIds(placed) == { placed[n].plate.element_id : n \in 1..Len(placed) }

\* RemovePlaced that takes out the first placed plate only.
RemovePlaced_FirstOnly(remaining, placed) ==
    SelectSeq(remaining, LAMBDA p : p.element_id # placed[1].plate.element_id)

\* [p for p in remaining_plates if p.element_id not in placed_ids]
RemovePlaced(remaining, placed) ==
    SelectSeq(remaining, LAMBDA p : p.element_id \notin PlacedIds(placed))

(***************************************************************************)
(* Slope classification and part records (element extraction).             *)
(***************************************************************************)
\* DeviationFromStraight that measures a negative angle against -90.
DeviationFromStraight_Symmetric(angle) ==
    IF 60 <= Abs(angle) /\ Abs(angle) <= 120 THEN Abs(Abs(angle) - 90) ELSE Abs(angle)

\* deviation_from_straight of an end cut's angle.
DeviationFromStraight(angle) ==
    IF 60 <= Abs(angle) /\ Abs(angle) <= 120 THEN Abs(angle - 90) ELSE Abs(angle)

\* start_has_slope / end_has_slope of an end cut (False without a cut).
HasSlope(cut) ==
    /\ cut # NoCut
    /\ DeviationFromStraight(cut.angle_deg) > 5
    /\ cut.confidence > 50

\* part_data of the element with the given id.
PartData(id, e) ==
    [ product_id |-> id,
      profile_name |-> e.profile,
      length |-> e.length,
      start_angle |-> e.start.angle_deg,
      end_angle |-> e.end.angle_deg,
      start_has_slope |-> HasSlope(e.start),
      end_has_slope |-> HasSlope(e.end) ]

\* ProfileOrder that opens a group for every selected profile up front.
ProfileOrder_Selected(es, selected) == selected

\* The names of parts_by_profile in the order the groups are created.
RECURSIVE ProfileOrder(_, _)
ProfileOrder(es, selected) ==
    IF es = <<>> THEN <<>>
    ELSE LET rest == ProfileOrder(Front(es), selected)
             name == es[Len(es)].profile
         IN  IF InSeq(name, selected) /\ ~InSeq(name, rest)
             THEN Append(rest, name) ELSE rest

\* parts_by_profile[name]: the parts of the profile in element order.
RECURSIVE PartsOfProfile(_, _, _)
PartsOfProfile(es, name, n) ==
    IF n = 0 THEN <<>>
    ELSE LET rest == PartsOfProfile(es, name, n - 1)
         IN  IF es[n].profile = name THEN Append(rest, PartData(n, es[n])) ELSE rest

\* parts_by_profile as a list of (profile_name, parts) in dict order.
PartsByProfile(es, selected) ==
    LET names == ProfileOrder(es, selected)
    IN  [n \in 1..Len(names) |->
            [profile_name |-> names[n], parts |-> PartsOfProfile(es, names[n], Len(es))]]

\* The profile depth the extractor estimates from the profile's name.
ProfileDepth(profile_name) ==
    CASE profile_name = "IPE400" -> mm(400)
      [] profile_name = "HEA200" -> mm(200)
      [] OTHER -> mm(400)

\* math.tan of an angle in degrees, in thousandths.
TanMilli(deg) ==
    CASE deg = 10 -> 176
      [] deg = 30 -> 577
      [] deg = 40 -> 839
      [] deg = 42 -> 900
      [] deg = 45 -> 1000
      [] deg = 60 -> 1732
      [] deg = 80 -> 5671
      [] deg = 100 -> -5671

(***************************************************************************)
(* Stock selection.                                                        *)
(***************************************************************************)
\* estimated_kerf for num_parts parts.
EstimatedKerf(num_parts) == IF num_parts > 1 THEN Max(0, (num_parts - 1) * KERF) ELSE 0

\* candidate_stocks: the stocks, longest first, that hold all remaining
\* parts together (with the kerf estimate) and each of them alone.
CandidateStocks(remaining, stocks) ==
    LET total_length_with_kerf == SumLengths(remaining) + EstimatedKerf(Len(remaining))
    IN  SelectSeq(Reverse(stocks),
                  LAMBDA s : /\ total_length_with_kerf <= s
                             /\ \A n \in 1..Len(remaining) : remaining[n].length <= s)

\* candidate_for_largest: the stocks, longest first, that hold the largest part.
CandidateForLargest(largest_part_length, stocks) ==
    SelectSeq(Reverse(stocks), LAMBDA s : largest_part_length <= s)

\* BestStock that takes the longest of the candidate stocks.
BestStock_LongestCandidate(remaining, stocks) ==
    LET candidate_stocks == CandidateStocks(remaining, stocks)
        candidate_for_largest == CandidateForLargest(MaxLength(remaining), stocks)
    IN  IF candidate_stocks # <<>> THEN candidate_stocks[1]
        ELSE IF candidate_for_largest # <<>> THEN candidate_for_largest[1]
        ELSE None

\* best_stock of one iteration (None when no stock holds the largest part).
BestStock(remaining, stocks) ==
    LET candidate_stocks == CandidateStocks(remaining, stocks)
        total_length_with_kerf == SumLengths(remaining) + EstimatedKerf(Len(remaining))
        candidate_for_largest == CandidateForLargest(MaxLength(remaining), stocks)
    IN  IF candidate_stocks # <<>>
        THEN IF Len(candidate_stocks) > 1
             THEN IF total_length_with_kerf <= candidate_stocks[Len(candidate_stocks)]
                  THEN candidate_stocks[Len(candidate_stocks)]
                  ELSE candidate_stocks[1]
             ELSE candidate_stocks[1]
        ELSE IF candidate_for_largest # <<>> THEN candidate_for_largest[1]
        ELSE None

(***************************************************************************)
(* Complementary pairs.                                                    *)
(***************************************************************************)
\* AngleMatch that accepts a difference of exactly 5 degrees.
AngleMatch_AtMost5(angle1, angle2) ==
    /\ Abs(Abs(angle1) - Abs(angle2)) <= 5
    /\ Abs(angle1) > 1

\* angle_diff < 5.0 and angle1_abs > 1.0
AngleMatch(angle1, angle2) ==
    /\ Abs(Abs(angle1) - Abs(angle2)) < 5
    /\ Abs(angle1) > 1

\* (angle1 > 0 and angle2 < 0) or (angle1 < 0 and angle2 > 0)
OppositeSigns(angle1, angle2) ==
    (angle1 > 0 /\ angle2 < 0) \/ (angle1 < 0 /\ angle2 > 0)

\* pairing_type of two parts ("none" when is_complementary stays False).
PairingType(part1, part2) ==
    IF /\ part1.start_has_slope /\ part2.end_has_slope
       /\ part1.start_angle # None /\ part2.end_angle # None
       /\ AngleMatch(part1.start_angle, part2.end_angle)
    THEN "start_end"
    ELSE IF /\ part1.end_has_slope /\ part2.start_has_slope
            /\ part1.end_angle # None /\ part2.start_angle # None
            /\ AngleMatch(part1.end_angle, part2.start_angle)
    THEN "end_start"
    ELSE IF /\ part1.end_has_slope /\ part2.end_has_slope
            /\ part1.end_angle # None /\ part2.end_angle # None
            /\ AngleMatch(part1.end_angle, part2.end_angle)
    THEN "end_end"
    ELSE IF /\ part1.start_has_slope /\ part2.start_has_slope
            /\ part1.start_angle # None /\ part2.start_angle # None
            /\ AngleMatch(part1.start_angle, part2.start_angle)
            /\ OppositeSigns(part1.start_angle, part2.start_angle)
    THEN "start_start"
    ELSE "none"

\* angle_for_calculation: angle1_val of the pairing type.
AngleForCalculation(part1, pairing_type) ==
    IF pairing_type \in {"end_start", "end_end"} THEN part1.end_angle ELSE part1.start_angle

\* PairGeometry with the shared length left out of the combined length.
PairGeometry_SumOfLengths(part1, part2, pairing_type) ==
    [shared |-> 0, combined |-> part1.length + part2.length]

\* PairGeometry without the caps of the shared length.
PairGeometry_Uncapped(part1, part2, pairing_type) ==
    LET angle == AngleForCalculation(part1, pairing_type)
        raw == (ProfileDepth(part1.profile_name) * TanMilli(Abs(angle))) \div 1000
    IN  [shared |-> raw, combined |-> part1.length + part2.length - raw]

\* shared_linear_slopes_length and combined_length of a complementary pair.
\* 0.9 and 0.5 of the shorter length are rounded down to 0.01 mm.
PairGeometry(part1, part2, pairing_type) ==
    LET length1 == part1.length
        length2 == part2.length
        angle == AngleForCalculation(part1, pairing_type)
        raw == (ProfileDepth(part1.profile_name) * TanMilli(Abs(angle))) \div 1000
        max_shared90 == (Min(length1, length2) * 9) \div 10
        shared90 == IF raw > max_shared90 THEN max_shared90 ELSE raw
        max_shared50 == Min(length1, length2) \div 2
        shared == IF length1 + length2 - shared90 < 0 /\ shared90 > max_shared50
                  THEN max_shared50 ELSE shared90
    IN  IF angle # None /\ Abs(angle) > 1
        THEN [shared |-> shared, combined |-> length1 + length2 - shared]
        ELSE [shared |-> 0, combined |-> length1 + length2]

\* best_stock_for_pair: the longest stock the pair fits (None when none does).
BestStockForPair(combined_length, stocks) ==
    LET fits == SelectSeq(Reverse(stocks),
                          LAMBDA s : combined_length <= s + TOLERANCE /\ ~(combined_length > s))
    IN  IF fits # <<>> THEN fits[1] ELSE None

\* One entry of pattern_parts; slope_info is read from the part itself.
PlacedPart(part, position, paired) ==
    [part |-> part, cut_position |-> position, length |-> part.length,
     complementary_pair |-> paired]

\* PairEntries that places the second part where the first one starts.
PairEntries_SamePosition(part1, part2, cut_position, shared) ==
    << PlacedPart(part1, cut_position, FALSE),
       PlacedPart(part2, cut_position, TRUE) >>

\* PairEntries with the complementary_pair mark on the first part's entry.
PairEntries_MarkFirst(part1, part2, cut_position, shared) ==
    << PlacedPart(part1, cut_position, TRUE),
       PlacedPart(part2, cut_position + part1.length - shared, FALSE) >>

\* The two entries a committed pair appends to pattern_parts.
PairEntries(part1, part2, cut_position, shared) ==
    << PlacedPart(part1, cut_position, FALSE),
       PlacedPart(part2, cut_position + part1.length - shared, TRUE) >>

\* PairAttempt that commits a pair by the sum of the two lengths.
PairAttempt_AdvanceBySum(part1, part2, st, stock, stocks) ==
    LET pairing_type == PairingType(part1, part2)
        g == PairGeometry(part1, part2, pairing_type)
        length_after_pair == st.current_length + g.combined
    IN  IF pairing_type = "none" THEN [st EXCEPT !.next = "continue"]
        ELSE IF BestStockForPair(g.combined, stocks) = None \/ length_after_pair > stock
        THEN [st EXCEPT !.next = "continue"]
        ELSE [st EXCEPT !.next = "break",
                        !.pattern_parts =
                            st.pattern_parts \o PairEntries(part1, part2, st.cut_position, g.shared),
                        !.cut_position = st.cut_position + part1.length - g.shared + part2.length,
                        !.current_length = st.current_length + part1.length + part2.length,
                        !.total_parts_length = st.total_parts_length + part1.length + part2.length,
                        !.parts_to_remove = st.parts_to_remove \o <<part1, part2>>]

\* PairAttempt that ends the search for part1 when the pair fits no stock.
PairAttempt_BreakOnNoStock(part1, part2, st, stock, stocks) ==
    LET pairing_type == PairingType(part1, part2)
        g == PairGeometry(part1, part2, pairing_type)
        best_stock_for_pair == BestStockForPair(g.combined, stocks)
        stock_to_use ==
            IF best_stock_for_pair # None /\ st.current_length = 0 /\ ~(g.combined <= stock)
            THEN best_stock_for_pair ELSE stock
        length_after_pair == st.current_length + g.combined
        same(next) == [st EXCEPT !.next = next]
    IN  IF pairing_type = "none" THEN same("continue")
        ELSE IF st.current_length > stock + TOLERANCE THEN same("break")
        ELSE IF ~(best_stock_for_pair # None /\ g.combined <= best_stock_for_pair + TOLERANCE)
        THEN same("break")
        ELSE IF g.combined > stock_to_use THEN same("continue")
        ELSE IF ~(st.current_length = 0 \/ length_after_pair <= stock) THEN same("break")
        ELSE IF length_after_pair > stock + TOLERANCE THEN same("continue")
        ELSE IF \/ length_after_pair > stock + EPSILON
                \/ length_after_pair > stock
                \/ length_after_pair > stock + TOLERANCE
        THEN [st EXCEPT !.next = "continue",
                        !.pattern_parts = SelectSeq(
                            st.pattern_parts \o PairEntries(part1, part2, st.cut_position, g.shared),
                            LAMBDA pp : pp.part \notin {part1, part2}),
                        !.cut_position = st.current_length]
        ELSE [st EXCEPT !.next = "break",
                        !.pattern_parts =
                            st.pattern_parts \o PairEntries(part1, part2, st.cut_position, g.shared),
                        !.cut_position = st.cut_position + part1.length - g.shared + part2.length,
                        !.current_length = length_after_pair,
                        !.total_parts_length = st.total_parts_length + part1.length + part2.length,
                        !.parts_to_remove = st.parts_to_remove \o <<part1, part2>>]

\* One pass of the inner pairing loop for part1 and part2: what the pass
\* does next (continue, break) and the pattern state it leaves.
PairAttempt(part1, part2, st, stock, stocks) ==
    LET pairing_type == PairingType(part1, part2)
        g == PairGeometry(part1, part2, pairing_type)
        best_stock_for_pair == BestStockForPair(g.combined, stocks)
        stock_to_use ==
            IF best_stock_for_pair # None /\ st.current_length = 0 /\ ~(g.combined <= stock)
            THEN best_stock_for_pair ELSE stock
        length_after_pair == st.current_length + g.combined
        same(next) == [st EXCEPT !.next = next]
    IN  IF pairing_type = "none" THEN same("continue")
        ELSE IF st.current_length > stock + TOLERANCE THEN same("break")
        ELSE IF ~(best_stock_for_pair # None /\ g.combined <= best_stock_for_pair + TOLERANCE)
        THEN same("continue")
        ELSE IF g.combined > stock_to_use THEN same("continue")
        ELSE IF ~(st.current_length = 0 \/ length_after_pair <= stock) THEN same("break")
        ELSE IF length_after_pair > stock + TOLERANCE THEN same("continue")
        ELSE IF \/ length_after_pair > stock + EPSILON
                \/ length_after_pair > stock
                \/ length_after_pair > stock + TOLERANCE
        THEN [st EXCEPT !.next = "continue",
                        !.pattern_parts = SelectSeq(
                            st.pattern_parts \o PairEntries(part1, part2, st.cut_position, g.shared),
                            LAMBDA pp : pp.part \notin {part1, part2}),
                        !.cut_position = st.current_length]
        ELSE [st EXCEPT !.next = "break",
                        !.pattern_parts =
                            st.pattern_parts \o PairEntries(part1, part2, st.cut_position, g.shared),
                        !.cut_position = st.cut_position + part1.length - g.shared + part2.length,
                        !.current_length = length_after_pair,
                        !.total_parts_length = st.total_parts_length + part1.length + part2.length,
                        !.parts_to_remove = st.parts_to_remove \o <<part1, part2>>]

(***************************************************************************)
(* Fill pass and validation replay.                                        *)
(***************************************************************************)
\* can_share of the fill pass: the previous part's end and the part's start.
CanShare(prev, part) ==
    IF ~prev.end_has_slope /\ ~part.start_has_slope THEN TRUE
    ELSE IF prev.end_has_slope /\ part.start_has_slope
    THEN /\ prev.end_angle # None /\ part.start_angle # None
         /\ Abs(Abs(prev.end_angle) - Abs(part.start_angle)) <= 2
         /\ OppositeSigns(prev.end_angle, part.start_angle)
    ELSE FALSE

\* FillKerf that charges no kerf at all.
FillKerf_Never(pattern, part) == 0

\* kerf_mm of the fill pass before the part is appended.
FillKerf(pattern, part) ==
    IF Len(pattern) > 0
    THEN IF CanShare(pattern[Len(pattern)].part, part) THEN 0 ELSE KERF
    ELSE 0

\* FillAttempt that goes on to the next part after a part that does not fit.
FillAttempt_SkipMisfit(part, st, stock) ==
    LET kerf_mm == FillKerf(st.pattern_parts, part)
        new_length == st.current_length + part.length + kerf_mm
    IN  IF new_length > stock + TOLERANCE THEN [st EXCEPT !.next = "continue"]
        ELSE [st EXCEPT !.next = "continue",
                        !.pattern_parts =
                            Append(st.pattern_parts, PlacedPart(part, st.cut_position, FALSE)),
                        !.current_length = new_length,
                        !.total_parts_length = st.total_parts_length + part.length,
                        !.cut_position = st.cut_position + part.length + kerf_mm,
                        !.parts_to_remove = Append(st.parts_to_remove, part)]

\* FillAttempt with the fit check on the part's own length instead of the
\* length the pattern would reach.
FillAttempt_OwnLength(part, st, stock) ==
    LET kerf_mm == FillKerf(st.pattern_parts, part)
        new_length == st.current_length + part.length + kerf_mm
    IN  IF part.length + kerf_mm > stock + TOLERANCE THEN [st EXCEPT !.next = "break"]
        ELSE [st EXCEPT !.next = "continue",
                        !.pattern_parts =
                            Append(st.pattern_parts, PlacedPart(part, st.cut_position, FALSE)),
                        !.current_length = new_length,
                        !.total_parts_length = st.total_parts_length + part.length,
                        !.cut_position = st.cut_position + part.length + kerf_mm,
                        !.parts_to_remove = Append(st.parts_to_remove, part)]

\* One pass of the fill loop for a part that is not yet in parts_to_remove.
FillAttempt(part, st, stock) ==
    LET kerf_mm == FillKerf(st.pattern_parts, part)
        new_length == st.current_length + part.length + kerf_mm
    IN  IF st.current_length > stock + TOLERANCE THEN [st EXCEPT !.next = "break"]
        ELSE IF new_length > stock + TOLERANCE THEN [st EXCEPT !.next = "break"]
        ELSE IF new_length > stock + TOLERANCE
        THEN [st EXCEPT !.next = "break",
                        !.pattern_parts = SelectSeq(
                            Append(st.pattern_parts, PlacedPart(part, st.cut_position, FALSE)),
                            LAMBDA pp : pp.part # part),
                        !.cut_position = st.cut_position + part.length + kerf_mm]
        ELSE [st EXCEPT !.next = IF Abs(new_length - stock) <= TOLERANCE
                                 THEN "break" ELSE "continue",
                        !.pattern_parts =
                            Append(st.pattern_parts, PlacedPart(part, st.cut_position, FALSE)),
                        !.current_length = new_length,
                        !.total_parts_length = st.total_parts_length + part.length,
                        !.cut_position = st.cut_position + part.length + kerf_mm,
                        !.parts_to_remove = Append(st.parts_to_remove, part)]

\* ReplayKerf with the fill pass's rule: two straight ends share the cut.
ReplayKerf_LikeFill(validated_parts, part) ==
    IF Len(validated_parts) > 0
    THEN IF CanShare(validated_parts[Len(validated_parts)].part, part) THEN 0 ELSE KERF
    ELSE 0

\* kerf of the validation replay between the last validated part and a part.
ReplayKerf(validated_parts, part) ==
    IF Len(validated_parts) > 0
    THEN LET last == validated_parts[Len(validated_parts)].part
         IN  IF last.end_has_slope /\ part.start_has_slope
             THEN IF Abs(last.end_angle + part.start_angle) <= 2 THEN 0 ELSE KERF
             ELSE KERF
    ELSE 0

\* The validation loop from pattern_parts[n] on: validated_parts and
\* validated_length.  The 7.5% shared estimate is rounded down to 0.01 mm.
RECURSIVE Replay(_, _, _, _)
Replay(pattern, n, acc, stock) ==
    IF n > Len(pattern) THEN acc
    ELSE LET pp == pattern[n]
             kerf == ReplayKerf(acc.validated_parts, pp.part)
         IN  IF pp.complementary_pair /\ Len(acc.validated_parts) > 0
             THEN LET prev_length == acc.validated_parts[Len(acc.validated_parts)].length
                      shared_estimate == (Min(prev_length, pp.length) * 75) \div 1000
                      combined_length == prev_length + pp.length - shared_estimate
                      new_validated_length ==
                          acc.validated_length - prev_length + combined_length
                  IN  IF new_validated_length > stock + TOLERANCE
                      THEN [validated_parts |-> Front(acc.validated_parts),
                            validated_length |-> acc.validated_length - prev_length]
                      ELSE Replay(pattern, n + 1,
                                  [validated_parts |-> Append(acc.validated_parts, pp),
                                   validated_length |-> new_validated_length], stock)
             ELSE LET new_validated_length == acc.validated_length + pp.length + kerf
                  IN  IF new_validated_length > stock + TOLERANCE THEN acc
                      ELSE Replay(pattern, n + 1,
                                  [validated_parts |-> Append(acc.validated_parts, pp),
                                   validated_length |-> new_validated_length], stock)

\* has_complementary_pairs of a pattern.
HasComplementaryPairs(pattern) ==
    \E n \in 1..Len(pattern) : pattern[n].complementary_pair

\* Validated that keeps the length of the fill pass when no part is dropped.
Validated_KeepLength(pattern, length, total, stock) ==
    LET r == Replay(pattern, 1, [validated_parts |-> <<>>, validated_length |-> 0], stock)
        keep == [pattern_parts |-> pattern, current_length |-> length,
                 total_parts_length |-> total]
    IN  IF Len(r.validated_parts) < Len(pattern) /\ ~HasComplementaryPairs(pattern)
        THEN [pattern_parts |-> r.validated_parts,
              current_length |-> r.validated_length,
              total_parts_length |-> SumLengths(r.validated_parts)]
        ELSE keep

\* Validated that trusts the replay for every pattern, paired or not.
Validated_ReplayAlways(pattern, length, total, stock) ==
    LET r == Replay(pattern, 1, [validated_parts |-> <<>>, validated_length |-> 0], stock)
    IN  [pattern_parts |-> r.validated_parts,
         current_length |-> r.validated_length,
         total_parts_length |-> SumLengths(r.validated_parts)]

\* pattern_parts, current_length and total_parts_length after the replay.
Validated(pattern, length, total, stock) ==
    LET r == Replay(pattern, 1, [validated_parts |-> <<>>, validated_length |-> 0], stock)
        keep == [pattern_parts |-> pattern, current_length |-> length,
                 total_parts_length |-> total]
    IN  IF Len(r.validated_parts) < Len(pattern)
        THEN IF HasComplementaryPairs(pattern) THEN keep
             ELSE [pattern_parts |-> r.validated_parts,
                   current_length |-> r.validated_length,
                   total_parts_length |-> SumLengths(r.validated_parts)]
        ELSE IF Abs(r.validated_length - length) > mm(1)
        THEN IF HasComplementaryPairs(pattern) THEN keep
             ELSE [keep EXCEPT !.current_length = r.validated_length]
        ELSE keep

\* The rejected_parts entry of a part.
Rejected(part, stock, reason) ==
    [product_id |-> part.product_id, length |-> part.length,
     stock_length |-> stock, reason |-> reason]

\* The reason the checks before the replay reject a whole pattern ("none"
\* when they pass it on to the replay).
PatternRejection(pattern, length, total, stock) ==
    LET has_shared_boundaries == length < total - TOLERANCE
        max_expected_kerf == (Len(pattern) - 1) * KERF
    IN  IF length > stock + TOLERANCE THEN "pattern total length exceeds stock"
        ELSE IF ~has_shared_boundaries /\ total > stock + TOLERANCE
        THEN "pattern total parts length exceeds stock - no shared boundaries"
        ELSE IF length > total + max_expected_kerf + mm(10)
        THEN "pattern calculation error"
        ELSE IF \E n \in 1..Len(pattern) : pattern[n].length > stock
        THEN "part length exceeds selected stock"
        ELSE "none"

\* waste / stock * 100 as an exact fraction (0 without stock).
Percentage(waste, stock) ==
    IF stock > 0 THEN [num |-> waste * 100, den |-> stock] ELSE [num |-> 0, den |-> 1]

\* CuttingPattern without the cap of the material used at the stock length.
CuttingPattern_Uncapped(pattern, length, stock) ==
    [stock_length |-> stock, parts |-> pattern, waste |-> stock - length,
     waste_percentage |-> Percentage(stock - length, stock)]

\* The cutting_patterns entry of a validated pattern.
CuttingPattern(pattern, length, stock) ==
    LET actual_material_used == Min(length, stock)
        waste == stock - actual_material_used
    IN  [stock_length |-> stock, parts |-> pattern, waste |-> waste,
         waste_percentage |-> Percentage(waste, stock)]

(***************************************************************************)
(* State.                                                                  *)
(***************************************************************************)
VARIABLES
    stock_lengths,        \* request: the stock lengths as given
    profiles,             \* request: the profile names as given
    elements,             \* the beams, columns and members of the IFC file
    stock_lengths_list,   \* the stock lengths, ascending
    parts_by_profile,     \* (profile_name, parts) in dict order
    profile_index,        \* position of the profile loop in parts_by_profile
    parts,                \* the profile's parts
    remaining_parts,
    cutting_patterns,
    used_lengths,         \* history: current_length of each recorded pattern
    stock_lengths_used,
    rejected_parts,
    max_iterations,
    iteration_count,
    best_stock,
    valid_parts_for_this_stock,
    pat,                  \* pattern_parts, current_length, total_parts_length,
                          \* cut_position and parts_to_remove of the iteration
    pair_i,               \* index of part1 in the pairing pass
    pair_j,               \* index of part2 (0: the inner loop is not entered)
    fill_k,               \* index of the part in the fill pass
    profile_nestings,
    total_stock_bars,
    total_waste,
    total_parts,
    response,             \* the HTTP response (status 0: none yet)
    plates,               \* sheet nesting: the plates of the call
    stock_configs,        \* sheet nesting: the stock sheets of the call
    max_sheets,
    results,              \* sheet nesting: the NestingResult of every sheet
    remaining_plates,
    sheet_count,
    pc                    \* position of the function under way

requestVars == <<stock_lengths, profiles, elements>>

parsedVars == <<stock_lengths_list, parts_by_profile>>

profileVars == <<parts, remaining_parts, cutting_patterns, used_lengths,
                 stock_lengths_used, rejected_parts, max_iterations, iteration_count>>

iterationVars == <<best_stock, valid_parts_for_this_stock, pat, pair_i, pair_j, fill_k>>

reportVars == <<profile_nestings, total_stock_bars, total_waste, total_parts>>

plateVars == <<plates, stock_configs, max_sheets, results, remaining_plates, sheet_count>>

barVars == <<requestVars, parsedVars, profile_index, profileVars, iterationVars,
             reportVars, response>>

vars == <<requestVars, parsedVars, profile_index, profileVars, iterationVars,
          reportVars, response, plateVars, pc>>

\* The pattern state at the start of an iteration.
EmptyPattern ==
    [pattern_parts |-> <<>>, current_length |-> 0, total_parts_length |-> 0,
     cut_position |-> 0, parts_to_remove |-> <<>>, next |-> "continue"]

\* No sheet nesting is under way.
NoPlates ==
    /\ plates = <<>>
    /\ stock_configs = <<>>
    /\ max_sheets = 0
    /\ results = <<>>
    /\ remaining_plates = <<>>
    /\ sheet_count = 0

Init ==
    /\ stock_lengths \in StockRequests
    /\ profiles \in ProfileRequests
    /\ elements \in ElementLists
    /\ stock_lengths_list = <<>>
    /\ parts_by_profile = <<>>
    /\ profile_index = 0
    /\ parts = <<>>
    /\ remaining_parts = <<>>
    /\ cutting_patterns = <<>>
    /\ used_lengths = <<>>
    /\ stock_lengths_used = <<>>
    /\ rejected_parts = <<>>
    /\ max_iterations = 0
    /\ iteration_count = 0
    /\ best_stock = None
    /\ valid_parts_for_this_stock = <<>>
    /\ pat = EmptyPattern
    /\ pair_i = 0
    /\ pair_j = 0
    /\ fill_k = 0
    /\ profile_nestings = <<>>
    /\ total_stock_bars = 0
    /\ total_waste = 0
    /\ total_parts = 0
    /\ response = [status |-> 0]
    /\ NoPlates
    /\ pc = "request"

\* Two elements with end cuts of GeometryCuts and a 12000 mm stock, which
\* holds every pair of them.
GeometryInit ==
    /\ stock_lengths = <<mm(12000)>>
    /\ profiles = <<"IPE400">>
    /\ elements \in [1..2 -> GeometryElements]
    /\ stock_lengths_list = <<>>
    /\ parts_by_profile = <<>>
    /\ profile_index = 0
    /\ parts = <<>>
    /\ remaining_parts = <<>>
    /\ cutting_patterns = <<>>
    /\ used_lengths = <<>>
    /\ stock_lengths_used = <<>>
    /\ rejected_parts = <<>>
    /\ max_iterations = 0
    /\ iteration_count = 0
    /\ best_stock = None
    /\ valid_parts_for_this_stock = <<>>
    /\ pat = EmptyPattern
    /\ pair_i = 0
    /\ pair_j = 0
    /\ fill_k = 0
    /\ profile_nestings = <<>>
    /\ total_stock_bars = 0
    /\ total_waste = 0
    /\ total_parts = 0
    /\ response = [status |-> 0]
    /\ NoPlates
    /\ pc = "request"

\* An element with end cuts of SlopeCuts, followed by one with a -45 degree
\* start cut, and a 12000 mm stock.
SlopeInit ==
    /\ stock_lengths = <<mm(12000)>>
    /\ profiles = <<"IPE400">>
    /\ elements \in { <<e, [profile |-> "IPE400", length |-> mm(5000),
                              start |-> Cut(-45, 90), end |-> NoCut]>> : e \in SlopeElements }
    /\ stock_lengths_list = <<>>
    /\ parts_by_profile = <<>>
    /\ profile_index = 0
    /\ parts = <<>>
    /\ remaining_parts = <<>>
    /\ cutting_patterns = <<>>
    /\ used_lengths = <<>>
    /\ stock_lengths_used = <<>>
    /\ rejected_parts = <<>>
    /\ max_iterations = 0
    /\ iteration_count = 0
    /\ best_stock = None
    /\ valid_parts_for_this_stock = <<>>
    /\ pat = EmptyPattern
    /\ pair_i = 0
    /\ pair_j = 0
    /\ fill_k = 0
    /\ profile_nestings = <<>>
    /\ total_stock_bars = 0
    /\ total_waste = 0
    /\ total_parts = 0
    /\ response = [status |-> 0]
    /\ NoPlates
    /\ pc = "request"

(***************************************************************************)
(* Request parsing and element extraction.                                 *)
(***************************************************************************)
\* The stock lengths are sorted and, like the profile names, must not be empty.
ParseRequest ==
    /\ pc = "request"
    /\ stock_lengths_list' = SortedAsc(stock_lengths)
    /\ IF stock_lengths = <<>>
       THEN /\ response' = [status |-> 400, detail |-> "At least one stock length is required"]
            /\ pc' = "raised"
       ELSE IF profiles = <<>>
       THEN /\ response' = [status |-> 400, detail |-> "At least one profile is required"]
            /\ pc' = "raised"
       ELSE /\ response' = response
            /\ pc' = "extract"
    /\ UNCHANGED <<plateVars, requestVars, parts_by_profile, profile_index, profileVars,
                   iterationVars, reportVars>>

\* ExtractParts without the test for an empty parts_by_profile.
ExtractParts_NoPartsCheck ==
    /\ pc = "extract"
    /\ parts_by_profile' = PartsByProfile(elements, profiles)
    /\ response' = response
    /\ pc' = "profile"
    /\ UNCHANGED <<plateVars, requestVars, stock_lengths_list, profile_index, profileVars,
                   iterationVars, reportVars>>

\* The elements of the selected profiles are grouped by profile name.
ExtractParts ==
    /\ pc = "extract"
    /\ parts_by_profile' = PartsByProfile(elements, profiles)
    /\ IF parts_by_profile' = <<>>
       THEN /\ response' = [status |-> 400, detail |-> "No parts found for selected profiles"]
            /\ pc' = "raised"
       ELSE /\ response' = response
            /\ pc' = "profile"
    /\ UNCHANGED <<plateVars, requestVars, stock_lengths_list, profile_index, profileVars,
                   iterationVars, reportVars>>

(***************************************************************************)
(* The profile loop and the per-profile while loop.                        *)
(***************************************************************************)
\* NextProfile that carries stock_lengths_used and rejected_parts over from
\* the profile before.
NextProfile_CarryOver ==
    /\ pc = "profile"
    /\ IF profile_index = Len(parts_by_profile)
       THEN /\ pc' = "summary"
            /\ UNCHANGED <<profile_index, profileVars>>
       ELSE LET ps == parts_by_profile[profile_index + 1].parts
            IN  /\ profile_index' = profile_index + 1
                /\ IF ps = <<>>
                   THEN /\ pc' = "profile"
                        /\ UNCHANGED profileVars
                   ELSE /\ parts' = ps
                        /\ remaining_parts' = ps
                        /\ cutting_patterns' = <<>>
                        /\ used_lengths' = <<>>
                        /\ stock_lengths_used' = stock_lengths_used
                        /\ rejected_parts' = rejected_parts
                        /\ max_iterations' = Len(ps) * ITERATION_FACTOR
                        /\ iteration_count' = 0
                        /\ pc' = "while"
    /\ UNCHANGED <<plateVars, requestVars, parsedVars, iterationVars, reportVars, response>>

\* for profile_name, parts in parts_by_profile.items(): the locals of the
\* next profile, or the summary after the last one.
NextProfile ==
    /\ pc = "profile"
    /\ IF profile_index = Len(parts_by_profile)
       THEN /\ pc' = "summary"
            /\ UNCHANGED <<profile_index, profileVars>>
       ELSE LET ps == parts_by_profile[profile_index + 1].parts
            IN  /\ profile_index' = profile_index + 1
                /\ IF ps = <<>>
                   THEN /\ pc' = "profile"
                        /\ UNCHANGED profileVars
                   ELSE /\ parts' = ps
                        /\ remaining_parts' = ps
                        /\ cutting_patterns' = <<>>
                        /\ used_lengths' = <<>>
                        /\ stock_lengths_used' = <<>>
                        /\ rejected_parts' = <<>>
                        /\ max_iterations' = Len(ps) * ITERATION_FACTOR
                        /\ iteration_count' = 0
                        /\ pc' = "while"
    /\ UNCHANGED <<plateVars, requestVars, parsedVars, iterationVars, reportVars, response>>

\* while remaining_parts and iteration_count < max_iterations
WhileTest ==
    /\ pc = "while"
    /\ IF remaining_parts # <<>> /\ iteration_count < max_iterations
       THEN /\ iteration_count' = iteration_count + 1
            /\ pc' = "select"
       ELSE /\ iteration_count' = iteration_count
            /\ pc' = "totals"
    /\ UNCHANGED <<plateVars, requestVars, parsedVars, profile_index, parts, remaining_parts,
                   cutting_patterns, used_lengths, stock_lengths_used, rejected_parts,
                   max_iterations, iterationVars, reportVars, response>>

\* OversizedParts that stops at the first oversized part.
OversizedParts_FirstOnly(remaining, longest_stock) ==
    LET all == SelectSeq(remaining, LAMBDA p : p.length > longest_stock)
    IN  IF all = <<>> THEN <<>> ELSE <<all[1]>>

\* oversized_parts of the remaining parts.
OversizedParts(remaining, longest_stock) ==
    SelectSeq(remaining, LAMBDA p : p.length > longest_stock)

\* The rejected_parts entries of the oversized parts.
OversizedRejections(remaining, longest_stock) ==
    LET oversized == OversizedParts(remaining, longest_stock)
    IN  [n \in 1..Len(oversized) |->
            Rejected(oversized[n], longest_stock, "exceeds longest available stock")]

\* The head of an iteration: oversized parts are rejected, the stock is
\* selected and the parts that fit it are sorted, longest first.
SelectStock ==
    /\ pc = "select"
    /\ LET longest_stock == stock_lengths_list[Len(stock_lengths_list)]
           oversized == OversizedParts(remaining_parts, longest_stock)
           rest == RemoveAll(remaining_parts, oversized)
           stock == BestStock(rest, stock_lengths_list)
           valid == SelectSeq(rest, LAMBDA p : p.length <= stock)
       IN  /\ rejected_parts' =
                 rejected_parts \o OversizedRejections(remaining_parts, longest_stock)
           /\ remaining_parts' = rest
           /\ IF rest = <<>>
              THEN /\ pc' = "totals"
                   /\ UNCHANGED iterationVars
              ELSE /\ best_stock' = stock
                   /\ IF stock = None \/ valid = <<>>
                      THEN /\ pc' = "totals"
                           /\ UNCHANGED <<valid_parts_for_this_stock, pat, pair_i, pair_j, fill_k>>
                      ELSE /\ valid_parts_for_this_stock' = SortByLengthDesc(valid)
                           /\ pat' = EmptyPattern
                           /\ pair_i' = 1
                           /\ pair_j' = 0
                           /\ fill_k' = 1
                           /\ pc' = IF Len(valid) >= 2 THEN "pair" ELSE "fill"
    /\ UNCHANGED <<plateVars, requestVars, parsedVars, profile_index, parts, cutting_patterns,
                   used_lengths, stock_lengths_used, max_iterations, iteration_count,
                   reportVars, response>>

(***************************************************************************)
(* Building one pattern.                                                   *)
(***************************************************************************)
\* The head of the outer pairing loop for part1 = valid_parts[pair_i].
PairOuter ==
    /\ pc = "pair"
    /\ pair_j = 0
    /\ IF pair_i > Len(valid_parts_for_this_stock)
       THEN /\ pc' = "fill"
            /\ UNCHANGED <<pair_i, pair_j>>
       ELSE LET part1 == valid_parts_for_this_stock[pair_i]
            IN  IF pat.current_length > best_stock + TOLERANCE
                THEN /\ pc' = "fill"
                     /\ UNCHANGED <<pair_i, pair_j>>
                ELSE IF \/ InSeq(part1, pat.parts_to_remove)
                        \/ ~(part1.start_has_slope \/ part1.end_has_slope)
                THEN /\ pair_i' = pair_i + 1
                     /\ UNCHANGED <<pair_j, pc>>
                ELSE /\ pair_j' = pair_i + 1
                     /\ UNCHANGED <<pair_i, pc>>
    /\ UNCHANGED <<plateVars, requestVars, parsedVars, profile_index, profileVars, best_stock,
                   valid_parts_for_this_stock, pat, fill_k, reportVars, response>>

\* One pass of the inner pairing loop for part2 = valid_parts[pair_j].
PairInner ==
    /\ pc = "pair"
    /\ pair_j > 0
    /\ IF pair_j > Len(valid_parts_for_this_stock)
       THEN /\ pair_i' = pair_i + 1
            /\ pair_j' = 0
            /\ pat' = pat
       ELSE LET part1 == valid_parts_for_this_stock[pair_i]
                part2 == valid_parts_for_this_stock[pair_j]
                r == IF InSeq(part2, pat.parts_to_remove)
                     THEN [pat EXCEPT !.next = "continue"]
                     ELSE PairAttempt(part1, part2, pat, best_stock, stock_lengths_list)
            IN  /\ pat' = r
                /\ IF r.next = "continue"
                   THEN /\ pair_j' = pair_j + 1
                        /\ pair_i' = pair_i
                   ELSE /\ pair_i' = pair_i + 1
                        /\ pair_j' = 0
    /\ UNCHANGED <<plateVars, requestVars, parsedVars, profile_index, profileVars, best_stock,
                   valid_parts_for_this_stock, fill_k, reportVars, response, pc>>

\* One pass of the fill loop for part = valid_parts[fill_k].
FillStep ==
    /\ pc = "fill"
    /\ IF fill_k > Len(valid_parts_for_this_stock)
       THEN /\ pc' = "retire"
            /\ UNCHANGED <<pat, fill_k>>
       ELSE LET part == valid_parts_for_this_stock[fill_k]
                r == IF InSeq(part, pat.parts_to_remove)
                     THEN [pat EXCEPT !.next = "continue"]
                     ELSE FillAttempt(part, pat, best_stock)
            IN  /\ pat' = r
                /\ fill_k' = fill_k + 1
                /\ pc' = IF r.next = "continue" THEN "fill" ELSE "retire"
    /\ UNCHANGED <<plateVars, requestVars, parsedVars, profile_index, profileVars, best_stock,
                   valid_parts_for_this_stock, pair_i, pair_j, reportVars, response>>

\* The used parts leave remaining_parts; an iteration that used none ends
\* the loop (or drops a first part that is longer than the stock).
RemoveUsed ==
    /\ pc = "retire"
    /\ LET rest == RemoveAll(remaining_parts, pat.parts_to_remove)
       IN  IF pat.parts_to_remove = <<>>
           THEN IF rest # <<>>
                THEN IF rest[1].length > best_stock
                     THEN /\ remaining_parts' = Tail(rest)
                          /\ pc' = IF pat.pattern_parts = <<>> THEN "while" ELSE "validate"
                     ELSE /\ remaining_parts' = rest
                          /\ pc' = "totals"
                ELSE /\ remaining_parts' = rest
                     /\ pc' = "totals"
           ELSE /\ remaining_parts' = rest
                /\ pc' = IF pat.pattern_parts = <<>> THEN "while" ELSE "validate"
    /\ UNCHANGED <<plateVars, requestVars, parsedVars, profile_index, parts, cutting_patterns,
                   used_lengths, stock_lengths_used, rejected_parts, max_iterations,
                   iteration_count, iterationVars, reportVars, response>>

\* The rejected_parts entries of a pattern the checks before the replay reject.
PatternRejections(pattern, stock, reason) ==
    LET hit == IF reason = "part length exceeds selected stock"
               THEN SelectSeq(pattern, LAMBDA pp : pp.length > stock)
               ELSE pattern
    IN  [n \in 1..Len(hit) |-> Rejected(hit[n].part, stock, reason)]

\* The parts of a pattern, in order.
PartsOf(pattern) == [n \in 1..Len(pattern) |-> pattern[n].part]

\* The validation of the assembled pattern: the checks that reject it as a
\* whole, then the replay that may cut it short.
ValidatePattern ==
    /\ pc = "validate"
    /\ LET reason == PatternRejection(pat.pattern_parts, pat.current_length,
                                      pat.total_parts_length, best_stock)
           v == Validated(pat.pattern_parts, pat.current_length,
                          pat.total_parts_length, best_stock)
       IN  IF reason # "none"
           THEN /\ rejected_parts' =
                     rejected_parts \o PatternRejections(pat.pattern_parts, best_stock, reason)
                /\ remaining_parts' = RemoveAll(remaining_parts, PartsOf(pat.pattern_parts))
                /\ pat' = pat
                /\ pc' = "while"
           ELSE /\ pat' = [pat EXCEPT !.pattern_parts = v.pattern_parts,
                                      !.current_length = v.current_length,
                                      !.total_parts_length = v.total_parts_length]
                /\ pc' = "save"
                /\ UNCHANGED <<rejected_parts, remaining_parts>>
    /\ UNCHANGED <<plateVars, requestVars, parsedVars, profile_index, parts, cutting_patterns,
                   used_lengths, stock_lengths_used, max_iterations, iteration_count,
                   best_stock, valid_parts_for_this_stock, pair_i, pair_j, fill_k,
                   reportVars, response>>

\* stock_lengths_used with one more bar of the stock.
CountStock(used, stock) ==
    IF stock \in DOMAIN used
    THEN [used EXCEPT ![stock] = @ + 1]
    ELSE (stock :> 1) @@ used

\* The validated pattern is recorded with its waste.
SavePattern ==
    /\ pc = "save"
    /\ LET pattern == CuttingPattern(pat.pattern_parts, pat.current_length, best_stock)
       IN  /\ cutting_patterns' = Append(cutting_patterns, pattern)
           /\ used_lengths' = Append(used_lengths, pat.current_length)
           /\ stock_lengths_used' = CountStock(stock_lengths_used, best_stock)
           /\ total_stock_bars' = total_stock_bars + 1
           /\ total_waste' = total_waste + pattern.waste
    /\ pc' = "while"
    /\ UNCHANGED <<plateVars, requestVars, parsedVars, profile_index, parts, remaining_parts,
                   rejected_parts, max_iterations, iteration_count, iterationVars,
                   profile_nestings, total_parts, response>>

(***************************************************************************)
(* Totals and report.                                                      *)
(***************************************************************************)
\* sum(len(pattern["parts"]) for pattern in cutting_patterns)
RECURSIVE CountPlaced(_)
CountPlaced(patterns) ==
    IF patterns = <<>> THEN 0 ELSE Len(Head(patterns).parts) + CountPlaced(Tail(patterns))

\* sum(pattern["waste"] for pattern in cutting_patterns)
RECURSIVE SumWaste(_)
SumWaste(patterns) ==
    IF patterns = <<>> THEN 0 ELSE Head(patterns).waste + SumWaste(Tail(patterns))

\* sum(pattern["stock_length"] for pattern in cutting_patterns)
RECURSIVE SumStockLength(_)
SumStockLength(patterns) ==
    IF patterns = <<>> THEN 0
    ELSE Head(patterns).stock_length + SumStockLength(Tail(patterns))

\* The profile_nestings entry of the profile just nested.
ProfileNesting(name, ps, patterns, used, rejected) ==
    LET total_parts_in_patterns == CountPlaced(patterns)
        total_waste_profile == SumWaste(patterns)
        total_stock_length_for_profile == SumStockLength(patterns)
    IN  [profile_name |-> name,
         total_parts |-> IF total_parts_in_patterns > 0
                         THEN total_parts_in_patterns ELSE Len(ps),
         total_length |-> SumLengths(ps),
         stock_lengths_used |-> used,
         cutting_patterns |-> patterns,
         total_waste |-> total_waste_profile,
         total_waste_percentage |->
             Percentage(total_waste_profile, total_stock_length_for_profile),
         rejected_parts |-> rejected]

\* After the while loop: the profile's totals join the report.
ProfileTotals ==
    /\ pc = "totals"
    /\ LET entry == ProfileNesting(parts_by_profile[profile_index].profile_name, parts,
                                   cutting_patterns, stock_lengths_used, rejected_parts)
       IN  /\ profile_nestings' = Append(profile_nestings, entry)
           /\ total_parts' = total_parts + entry.total_parts
    /\ pc' = "profile"
    /\ UNCHANGED <<plateVars, requestVars, parsedVars, profile_index, profileVars, iterationVars,
                   total_stock_bars, total_waste, response>>

\* StockLengthUsed that adds each stock length once, whatever its count.
RECURSIVE StockLengthUsed_Distinct(_, _)
StockLengthUsed_Distinct(used, stocks) ==
    IF stocks = {} THEN 0
    ELSE LET s == CHOOSE x \in stocks : TRUE
         IN  s + StockLengthUsed_Distinct(used, stocks \ {s})

\* sum(stock_len * count) over the stock_lengths_used of a profile.
RECURSIVE StockLengthUsed(_, _)
StockLengthUsed(used, stocks) ==
    IF stocks = {} THEN 0
    ELSE LET s == CHOOSE x \in stocks : TRUE
         IN  s * used[s] + StockLengthUsed(used, stocks \ {s})

\* total_stock_length_used over all profiles of the report.
RECURSIVE TotalStockLengthUsed(_)
TotalStockLengthUsed(nestings) ==
    IF nestings = <<>> THEN 0
    ELSE StockLengthUsed(Head(nestings).stock_lengths_used,
                         DOMAIN Head(nestings).stock_lengths_used)
         + TotalStockLengthUsed(Tail(nestings))

\* The summary of the nesting report.
Summary(nestings, bars, waste, count) ==
    LET total_stock_length_used == TotalStockLengthUsed(nestings)
    IN  [total_profiles |-> Len(nestings),
         total_parts |-> count,
         total_stock_bars |-> bars,
         total_waste |-> waste,
         average_waste_percentage |-> Percentage(waste, total_stock_length_used)]

\* The report is returned.
Respond ==
    /\ pc = "summary"
    /\ response' = [status |-> 200,
                    profiles |-> profile_nestings,
                    summary |-> Summary(profile_nestings, total_stock_bars,
                                        total_waste, total_parts),
                    stock_lengths |-> stock_lengths_list]
    /\ pc' = "done"
    /\ UNCHANGED <<plateVars, requestVars, parsedVars, profile_index, profileVars, iterationVars,
                   reportVars>>

Next ==
    \/ ParseRequest
    \/ ExtractParts
    \/ NextProfile
    \/ WhileTest
    \/ SelectStock
    \/ PairOuter
    \/ PairInner
    \/ FillStep
    \/ RemoveUsed
    \/ ValidatePattern
    \/ SavePattern
    \/ ProfileTotals
    \/ Respond

Spec == Init /\ [][Next]_vars

\* The same handler on the requests of GeometryInit.
GeometrySpec == GeometryInit /\ [][Next]_vars

\* The same handler on the requests of SlopeInit.
SlopeSpec == SlopeInit /\ [][Next]_vars

(***************************************************************************)
(* nest_plates_on_multiple_stocks: one action per pass of the while loop.  *)
(***************************************************************************)
\* No bar nesting request is under way.
NoRequest ==
    /\ stock_lengths = <<>>
    /\ profiles = <<>>
    /\ elements = <<>>
    /\ stock_lengths_list = <<>>
    /\ parts_by_profile = <<>>
    /\ profile_index = 0
    /\ parts = <<>>
    /\ remaining_parts = <<>>
    /\ cutting_patterns = <<>>
    /\ used_lengths = <<>>
    /\ stock_lengths_used = <<>>
    /\ rejected_parts = <<>>
    /\ max_iterations = 0
    /\ iteration_count = 0
    /\ best_stock = None
    /\ valid_parts_for_this_stock = <<>>
    /\ pat = EmptyPattern
    /\ pair_i = 0
    /\ pair_j = 0
    /\ fill_k = 0
    /\ profile_nestings = <<>>
    /\ total_stock_bars = 0
    /\ total_waste = 0
    /\ total_parts = 0
    /\ response = [status |-> 0]

\* results = [], remaining_plates = plates.copy(), sheet_count = 0
PlateInit ==
    /\ NoRequest
    /\ plates \in PlateLists
    /\ stock_configs \in StockConfigLists
    /\ max_sheets \in SheetLimits
    /\ results = <<>>
    /\ remaining_plates = plates
    /\ sheet_count = 0
    /\ pc = "nest"

\* while remaining_plates and sheet_count < max_sheets
NestLoop == remaining_plates # <<>> /\ sheet_count < max_sheets

\* best_result of the pass: the result of the best stock, with its 0-based
\* stock_index.
BestResult ==
    LET best == BestStockIdx(remaining_plates, stock_configs, Len(stock_configs))
    IN  [GreedyNesting(remaining_plates, stock_configs[best].width,
                       stock_configs[best].length, GAP)
            EXCEPT !.stock_index = best - 1]

\* A pass in which some stock places a plate: the best result is recorded
\* and its plates leave remaining_plates.
NestSheet ==
    /\ pc = "nest"
    /\ NestLoop
    /\ BestStockIdx(remaining_plates, stock_configs, Len(stock_configs)) # 0
    /\ results' = Append(results, BestResult)
    /\ remaining_plates' = RemovePlaced(remaining_plates, BestResult.placed_plates)
    /\ sheet_count' = sheet_count + 1
    /\ UNCHANGED <<barVars, plates, stock_configs, max_sheets, pc>>

\* A pass in which no stock places a plate: break, and return.
NestBreak ==
    /\ pc = "nest"
    /\ NestLoop
    /\ BestStockIdx(remaining_plates, stock_configs, Len(stock_configs)) = 0
    /\ pc' = "returned"
    /\ UNCHANGED <<barVars, plateVars>>

\* The loop condition fails: return results, remaining_plates.
NestReturn ==
    /\ pc = "nest"
    /\ ~NestLoop
    /\ pc' = "returned"
    /\ UNCHANGED <<barVars, plateVars>>

PlateNext ==
    \/ NestSheet
    \/ NestBreak
    \/ NestReturn

PlateSpec == PlateInit /\ [][PlateNext]_vars

\* The function runs on until it returns: weak fairness of PlateNext, with
\* ENABLED <<PlateNext>>_vars written out as pc = "nest" (one of the three
\* actions is enabled there, and each of them changes pc or sheet_count).
PlateLiveSpec == PlateSpec /\ ([]<>(pc # "nest") \/ []<><<PlateNext>>_vars)

(***************************************************************************)
(* Vocabulary of the properties.                                           *)
(***************************************************************************)
\* The longest stock length of the request.
LongestStock == stock_lengths_list[Len(stock_lengths_list)]

\* The profile loop is inside the nesting of a profile.
InProfile == pc \in {"while", "select", "pair", "fill", "retire", "validate", "save", "totals"}

\* How many entries of the patterns hold the part.
PlacedCount(p, patterns) ==
    Cardinality({ x \in UNION { { <<c, n>> : n \in 1..Len(patterns[c].parts) } :
                                c \in 1..Len(patterns) } :
                  patterns[x[1]].parts[x[2]].part = p })

\* How many rejection entries name the part.
RejectedCount(p, rejected) ==
    Cardinality({ n \in 1..Len(rejected) : rejected[n].product_id = p.product_id })

\* The elements of Scenario A and D, and the straight 5000 mm bar of Scenario B.
EndCut45 == [profile |-> "IPE400", length |-> mm(5000), start |-> NoCut, end |-> Cut(45, 90)]

StartCutMinus45 ==
    [profile |-> "IPE400", length |-> mm(5000), start |-> Cut(-45, 90), end |-> NoCut]

Straight5000 == [profile |-> "IPE400", length |-> mm(5000), start |-> NoCut, end |-> NoCut]

ScenarioPair == { <<EndCut45, StartCutMinus45>>, <<StartCutMinus45, EndCut45>> }

\* The request ended with a report for the given stock lengths.
Reported(stocks) == pc = "done" /\ stock_lengths_list = stocks

(***************************************************************************)
(* C1.  When the while loop of a profile has finished, every part of the   *)
(* profile is in exactly one recorded pattern or in exactly one rejection  *)
(* entry, so placed parts + rejected parts = input parts.                  *)
(* The code breaks it: a part the validation drops has already left        *)
(* remaining_parts and gets no rejection entry.                            *)
(***************************************************************************)
C1_EveryPartAccounted ==
    pc = "totals" =>
        /\ \A n \in 1..Len(parts) :
              PlacedCount(parts[n], cutting_patterns)
                  + RejectedCount(parts[n], rejected_parts) = 1
        /\ CountPlaced(cutting_patterns) + Len(rejected_parts) = Len(parts)

(***************************************************************************)
(* C2 as claimed.  Every recorded pattern has material used of at most     *)
(* stock_length + 0.1 mm and a waste equal to stock_length - material used *)
(* that is never negative.                                                 *)
(***************************************************************************)
C2_WasteIsStockMinusUsed ==
    \A n \in 1..Len(cutting_patterns) :
        /\ used_lengths[n] <= cutting_patterns[n].stock_length + TOLERANCE
        /\ cutting_patterns[n].waste = cutting_patterns[n].stock_length - used_lengths[n]
        /\ cutting_patterns[n].waste >= 0

(***************************************************************************)
(* C2 as amended.  Every recorded pattern has material used of at most     *)
(* stock_length + 0.1 mm and a waste equal to stock_length - min(material  *)
(* used, stock_length), which is never negative.                           *)
(***************************************************************************)
C2_WasteIsStockMinusCappedUsed ==
    \A n \in 1..Len(cutting_patterns) :
        /\ used_lengths[n] <= cutting_patterns[n].stock_length + TOLERANCE
        /\ cutting_patterns[n].waste =
               cutting_patterns[n].stock_length
                   - Min(used_lengths[n], cutting_patterns[n].stock_length)
        /\ cutting_patterns[n].waste >= 0

\* C2 witness: a recorded pattern whose material used is above its stock length.
C2_UsedAboveStock ==
    \E n \in 1..Len(cutting_patterns) :
        /\ used_lengths[n] > cutting_patterns[n].stock_length
        /\ cutting_patterns[n].waste = 0

(***************************************************************************)
(* C3.  A part longer than the longest stock is in no pattern; from the    *)
(* first stock selection of its profile on it is out of remaining_parts    *)
(* and has exactly one rejection entry, which gives the longest stock and  *)
(* the reason "exceeds longest available stock"; and the profile's other   *)
(* parts are still nested (the loop ends with a pattern when there are     *)
(* any).                                                                   *)
(***************************************************************************)
C3_OversizedRejectedNeverPlaced ==
    /\ InProfile =>
          \A n \in 1..Len(parts) :
              parts[n].length > LongestStock =>
                  /\ PlacedCount(parts[n], cutting_patterns) = 0
                  /\ pc \in {"pair", "fill", "retire", "validate", "save"} =>
                         ~InSeq(parts[n], PartsOf(pat.pattern_parts))
                  /\ (iteration_count >= 1 /\ ~(iteration_count = 1 /\ pc = "select")) =>
                         /\ ~InSeq(parts[n], remaining_parts)
                         /\ RejectedCount(parts[n], rejected_parts) = 1
                         /\ \A m \in 1..Len(rejected_parts) :
                                rejected_parts[m].product_id = parts[n].product_id =>
                                    /\ rejected_parts[m].reason = "exceeds longest available stock"
                                    /\ rejected_parts[m].stock_length = LongestStock
                                    /\ rejected_parts[m].length = parts[n].length
    /\ pc = "totals" =>
          ((\E n \in 1..Len(parts) : parts[n].length <= LongestStock) =>
               cutting_patterns # <<>>)
    /\ \A e \in 1..Len(profile_nestings) :
          \A c \in 1..Len(profile_nestings[e].cutting_patterns) :
              \A n \in 1..Len(profile_nestings[e].cutting_patterns[c].parts) :
                  profile_nestings[e].cutting_patterns[c].parts[n].length <= LongestStock

\* C3 witness: a profile with an oversized part and another part has ended
\* its loop with the oversized part rejected and a pattern recorded.
C3_OversizedBesideNested ==
    /\ pc = "totals"
    /\ \E n, m \in 1..Len(parts) :
          /\ parts[n].length > LongestStock
          /\ parts[m].length <= LongestStock
          /\ RejectedCount(parts[n], rejected_parts) = 1
          /\ PlacedCount(parts[m], cutting_patterns) = 1

(***************************************************************************)
(* C4.  A part the validation drops from the pattern (it was taken by the  *)
(* passes, and is not in the pattern that goes on to be recorded) is in    *)
(* remaining_parts, so that a later iteration can place it.                *)
(* The code breaks it: the used parts leave remaining_parts before the     *)
(* validation, and nothing puts a dropped part back.                       *)
(***************************************************************************)
C4_DroppedPartStaysRemaining ==
    pc = "save" =>
        \A n \in 1..Len(pat.parts_to_remove) :
            ~InSeq(pat.parts_to_remove[n], PartsOf(pat.pattern_parts)) =>
                InSeq(pat.parts_to_remove[n], remaining_parts)

(***************************************************************************)
(* C6.  Complementary pairs are atomic.  In every recorded pattern, and in *)
(* the pattern under construction, a part marked as the second of a        *)
(* complementary pair directly follows its partner: the part before it is  *)
(* unmarked, pairs with it, and the marked part is cut shared_mm before    *)
(* the partner's end.  And the validation keeps or drops the two parts of  *)
(* a pair together.                                                        *)
(***************************************************************************)
PairsWhole(pattern) ==
    \A n \in 1..Len(pattern) :
        pattern[n].complementary_pair =>
            /\ n > 1
            /\ ~pattern[n - 1].complementary_pair
            /\ PairingType(pattern[n - 1].part, pattern[n].part) # "none"
            /\ pattern[n].cut_position =
                   pattern[n - 1].cut_position + pattern[n - 1].length
                       - PairGeometry(pattern[n - 1].part, pattern[n].part,
                                      PairingType(pattern[n - 1].part, pattern[n].part)).shared

ValidationKeepsPairs ==
    (pc = "validate" /\ pc' = "save") =>
        \A n \in 2..Len(pat.pattern_parts) :
            pat.pattern_parts[n].complementary_pair =>
                (InSeq(pat.pattern_parts[n], pat'.pattern_parts)
                     <=> InSeq(pat.pattern_parts[n - 1], pat'.pattern_parts))

C7_ScenarioA ==
    (Reported(<<mm(6000), mm(12000)>>) /\ elements \in ScenarioPair) =>
        LET p == response.profiles[1]
            c == p.cutting_patterns[1]
        IN  /\ Len(response.profiles) = 1
            /\ ProfileDepth(p.profile_name) = mm(400)
            /\ Len(p.cutting_patterns) = 1
            /\ c.stock_length = mm(12000)
            /\ Len(c.parts) = 2
            /\ ~c.parts[1].complementary_pair
            /\ c.parts[2].complementary_pair
            /\ c.parts[1].cut_position = 0
            /\ c.parts[2].cut_position = c.parts[1].length - mm(400)
            /\ used_lengths = <<mm(9600)>>
            /\ c.waste = mm(2400)
            /\ p.rejected_parts = <<>>

\* C7 witness: Scenario A has been run to its report.
C7_ScenarioAReported ==
    /\ Reported(<<mm(6000), mm(12000)>>)
    /\ elements = <<EndCut45, StartCutMinus45>>
    /\ Len(response.profiles[1].cutting_patterns[1].parts) = 2

(***************************************************************************)
(* C8.  Scenario B: three straight 5000 mm parts with the stocks 6000 and  *)
(* 12000 mm are reported as exactly two patterns and no rejection: first a *)
(* 12000 mm bar with two parts, 10003 mm of material used and 1997 mm of   *)
(* waste, then a 6000 mm bar with the third part and 1000 mm of waste.     *)
(***************************************************************************)
C8_ScenarioB ==
    (Reported(<<mm(6000), mm(12000)>>)
         /\ elements = <<Straight5000, Straight5000, Straight5000>>) =>
        LET p == response.profiles[1]
            c == p.cutting_patterns
        IN  /\ Len(c) = 2
            /\ c[1].stock_length = mm(12000)
            /\ PartsOf(c[1].parts) = <<parts[1], parts[2]>>
            /\ used_lengths[1] = mm(10003)
            /\ c[1].waste = mm(1997)
            /\ c[2].stock_length = mm(6000)
            /\ PartsOf(c[2].parts) = <<parts[3]>>
            /\ used_lengths[2] = mm(5000)
            /\ c[2].waste = mm(1000)
            /\ p.rejected_parts = <<>>
            /\ response.summary.total_stock_bars = 2

\* C8 witness: Scenario B has been run to its report.
C8_ScenarioBReported ==
    /\ Reported(<<mm(6000), mm(12000)>>)
    /\ elements = <<Straight5000, Straight5000, Straight5000>>
    /\ response.summary.total_stock_bars = 2

(***************************************************************************)
(* C9.  Scenario D: the two parts of Scenario A with the 6000 mm stock     *)
(* alone are not paired: each is reported alone in a 6000 mm pattern of    *)
(* its own with 1000 mm of waste, and neither is rejected.                 *)
(***************************************************************************)
C9_ScenarioD ==
    (Reported(<<mm(6000)>>) /\ elements \in ScenarioPair) =>
        LET p == response.profiles[1]
            c == p.cutting_patterns
        IN  /\ Len(c) = 2
            /\ \A n \in 1..2 :
                  /\ c[n].stock_length = mm(6000)
                  /\ PartsOf(c[n].parts) = <<parts[n]>>
                  /\ ~c[n].parts[1].complementary_pair
                  /\ c[n].parts[1].cut_position = 0
                  /\ c[n].waste = mm(1000)
            /\ p.rejected_parts = <<>>

\* C9 witness: Scenario D has been run to its report, after the pairing
\* pass found the pair and no stock for it.
C9_ScenarioDReported ==
    /\ Reported(<<mm(6000)>>)
    /\ elements = <<EndCut45, StartCutMinus45>>
    /\ PairingType(parts[1], parts[2]) = "end_start"
    /\ BestStockForPair(PairGeometry(parts[1], parts[2], "end_start").combined,
                        stock_lengths_list) = None
    /\ Len(response.profiles[1].cutting_patterns) = 2

(***************************************************************************)
(* C11.  A request with no stock length, with no profile, or whose         *)
(* profiles have no part in the file is answered by a 400 error before the *)
(* first profile is nested, and with no report; every other request goes   *)
(* on to the nesting.                                                      *)
(***************************************************************************)
InputError ==
    \/ stock_lengths = <<>>
    \/ profiles = <<>>
    \/ PartsByProfile(elements, profiles) = <<>>

C11_InputErrorsRaiseBeforeNesting ==
    /\ (InputError /\ pc \notin {"request", "extract"}) => pc = "raised"
    /\ pc = "raised" =>
          /\ InputError
          /\ response.status = 400
          /\ DOMAIN response = {"status", "detail"}
          /\ profile_index = 0
          /\ iteration_count = 0
          /\ cutting_patterns = <<>>
          /\ rejected_parts = <<>>
          /\ profile_nestings = <<>>
    /\ pc \notin {"raised", "done"} => response.status = 0

\* C11 witness: elements were read, none of a requested profile, and the
\* request was refused.
C11_NoPartsRefused ==
    /\ pc = "raised"
    /\ stock_lengths # <<>>
    /\ profiles # <<>>
    /\ elements # <<>>
    /\ response.detail = "No parts found for selected profiles"

(***************************************************************************)
(* C12.  A profile without parts has no pattern, no waste and no rejection *)
(* in the report: a group of parts_by_profile is opened with its first     *)
(* part, so a requested profile no element has gets no group, the profile  *)
(* loop never nests an empty part list, and the report has entries only    *)
(* for the profiles that have parts, which alone add to the summary.       *)
(***************************************************************************)
HasNoParts(name) == \A n \in 1..Len(elements) : elements[n].profile # name

C12_EmptyProfileYieldsNothing ==
    /\ \A g \in 1..Len(parts_by_profile) : parts_by_profile[g].parts # <<>>
    /\ InProfile => parts # <<>>
    /\ \A e \in 1..Len(profile_nestings) :
          /\ ~HasNoParts(profile_nestings[e].profile_name)
          /\ profile_nestings[e].total_parts > 0
                 \/ profile_nestings[e].rejected_parts # <<>>
    /\ pc = "done" =>
          /\ response.profiles = profile_nestings
          /\ response.summary.total_profiles =
                 Cardinality({ name \in {"IPE400", "HEA200"} :
                                 InSeq(name, profiles) /\ ~HasNoParts(name) })

\* C12 witness: a report for a request that names a profile without parts
\* next to a profile with parts.
C12_EmptyProfileRequested ==
    /\ pc = "done"
    /\ \E n \in 1..Len(profiles) : HasNoParts(profiles[n])
    /\ Len(response.profiles) = 1

(***************************************************************************)
(* C13.  In the summary of the report total_stock_bars is the number of    *)
(* patterns of all profiles, total_waste is the sum of their wastes, and   *)
(* average_waste_percentage is total_waste / (sum of the stock lengths of  *)
(* all patterns) * 100, and 0 when there is no pattern.                    *)
(***************************************************************************)
RECURSIVE AllPatterns(_)
AllPatterns(nestings) ==
    IF nestings = <<>> THEN <<>>
    ELSE Head(nestings).cutting_patterns \o AllPatterns(Tail(nestings))

C13_SummaryTotals ==
    pc = "done" =>
        LET all == AllPatterns(response.profiles)
        IN  /\ response.summary.total_stock_bars = Len(all)
            /\ response.summary.total_waste = SumWaste(all)
            /\ response.summary.average_waste_percentage =
                   IF all = <<>> THEN [num |-> 0, den |-> 1]
                   ELSE [num |-> SumWaste(all) * 100, den |-> SumStockLength(all)]

\* C13 witness: a report of two bars, 12 m and 6 m long, whose average waste
\* percentage (w1 + w2) / (s1 + s2) is not the mean of the two bars'
\* percentages, (w1 / s1 + w2 / s2) / 2 (wastes in mm, stocks in m).
C13_AverageIsNotMean ==
    /\ pc = "done"
    /\ Len(AllPatterns(response.profiles)) = 2
    /\ LET all == AllPatterns(response.profiles)
           w1 == all[1].waste \div mm(1)
           w2 == all[2].waste \div mm(1)
           s1 == all[1].stock_length \div mm(1000)
           s2 == all[2].stock_length \div mm(1000)
       IN  /\ all[1].waste = mm(w1) /\ all[2].waste = mm(w2)
           /\ s1 = 12 /\ s2 = 6
           /\ response.summary.average_waste_percentage =
                  [num |-> mm(w1 + w2) * 100, den |-> mm((s1 + s2) * 1000)]
           /\ (w1 * s2 + w2 * s1) * (s1 + s2) # 2 * s1 * s2 * (w1 + w2)

(***************************************************************************)
(* C14.  The stock of an iteration, chosen after the oversized parts have  *)
(* left: the smallest stock length S with every remaining part <= S and    *)
(* sum of the remaining lengths + (n - 1) * 3 mm <= S when there is one,   *)
(* and otherwise the longest stock length that holds the largest           *)
(* remaining part.                                                         *)
(***************************************************************************)
StockSet == { stock_lengths_list[n] : n \in 1..Len(stock_lengths_list) }

HoldsAll(S, remaining) ==
    /\ \A n \in 1..Len(remaining) : remaining[n].length <= S
    /\ SumLengths(remaining) + (Len(remaining) - 1) * mm(3) <= S

SetMin(S) == CHOOSE x \in S : \A y \in S : x <= y

SetMax(S) == CHOOSE x \in S : \A y \in S : y <= x

LoopMeasure ==
    /\ pc = "while" => iteration_count + Len(remaining_parts) <= Len(parts)
    /\ InProfile =>
          /\ max_iterations = 10 * Len(parts)
          /\ iteration_count <= Len(parts)
          /\ iteration_count < max_iterations
    /\ pc = "totals" => remaining_parts = <<>>

IterationRemovesPart ==
    /\ (pc = "retire" /\ pc' # "totals") => Len(remaining_parts') < Len(remaining_parts)
    /\ (InProfile /\ pc' # "profile") => Len(remaining_parts') <= Len(remaining_parts)

\* The rank of a state inside one iteration: the for loops count down.
PhaseRank ==
    LET L == Len(valid_parts_for_this_stock)
    IN  CASE pc = "save" -> 0
          [] pc = "validate" -> 1
          [] pc = "retire" -> 2
          [] pc = "fill" -> 3 + (L + 1 - fill_k)
          [] pc = "pair" -> 4 + L + (L + 2 - pair_i) * (L + 3)
                              + (IF pair_j = 0 THEN L + 2 ELSE L + 1 - pair_j)
          [] pc = "select" -> (Len(elements) + 4) * (Len(elements) + 4) - 2
          [] pc = "while" -> (Len(elements) + 4) * (Len(elements) + 4) - 1

Variant ==
    LET E == Len(elements)
        W2 == (E + 4) * (E + 4)
        W1 == 2 + (E + 2) * W2
        band == IF pc \in {"validate", "save"}
                THEN Len(remaining_parts) + 1 ELSE Len(remaining_parts)
        left == (Len(parts_by_profile) - profile_index) * W1
    IN  CASE pc \in {"raised", "done"} -> 0
          [] pc = "summary" -> 1
          [] pc = "profile" -> 2 + left
          [] pc = "totals" -> 2 + left + 1
          [] pc = "extract" -> 3 + (E + 1) * W1
          [] pc = "request" -> 4 + (E + 1) * W1
          [] OTHER -> 2 + left + 2 + band * W2 + PhaseRank

EveryStepDescends == Variant >= 0 /\ Variant' < Variant

C15_LoopTerminates ==
    /\ []LoopMeasure
    /\ [][IterationRemovesPart /\ EveryStepDescends]_vars

\* C15 witness: a loop that needed one iteration for each of its parts.
C15_OneIterationPerPart ==
    /\ pc = "totals"
    /\ Len(parts) >= 2
    /\ iteration_count = Len(parts)
    /\ Len(cutting_patterns) = Len(parts)

(***************************************************************************)
(* C16 as claimed.  When the fill pass appends a part, the kerf it charges *)
(* (what current_length gains beyond the part's length) is 0 mm if the     *)
(* pattern is empty, or the previous part's end and the part's start are   *)
(* both straight, or both are sloped with absolute angles less than 5      *)
(* degrees apart; and 3 mm in every other case.                            *)
(***************************************************************************)
FillAppends == pc = "fill" /\ Len(pat'.pattern_parts) = Len(pat.pattern_parts) + 1

KerfCharged ==
    pat'.current_length - pat.current_length
        - pat'.pattern_parts[Len(pat'.pattern_parts)].part.length

BothStraight(prev, new) == ~prev.end_has_slope /\ ~new.start_has_slope

BothSloped(prev, new) == prev.end_has_slope /\ new.start_has_slope

C16_FillKerfByPairingRule ==
    [][FillAppends =>
          LET new == pat'.pattern_parts[Len(pat'.pattern_parts)].part
          IN  KerfCharged =
                 IF pat.pattern_parts = <<>> THEN 0
                 ELSE LET prev == pat.pattern_parts[Len(pat.pattern_parts)].part
                      IN  IF \/ BothStraight(prev, new)
                             \/ /\ BothSloped(prev, new)
                                /\ Abs(Abs(prev.end_angle) - Abs(new.start_angle)) < 5
                          THEN 0 ELSE mm(3)]_vars

(***************************************************************************)
(* C16 as amended.  The same, with the rule of the fill pass for two       *)
(* sloped boundaries: absolute angles at most 2 degrees apart and angles   *)
(* of opposite signs.                                                      *)
(***************************************************************************)
C16_FillKerfByFillRule ==
    [][FillAppends =>
          LET new == pat'.pattern_parts[Len(pat'.pattern_parts)].part
          IN  KerfCharged =
                 IF pat.pattern_parts = <<>> THEN 0
                 ELSE LET prev == pat.pattern_parts[Len(pat.pattern_parts)].part
                      IN  IF \/ BothStraight(prev, new)
                             \/ /\ BothSloped(prev, new)
                                /\ Abs(Abs(prev.end_angle) - Abs(new.start_angle)) <= 2
                                /\ \/ prev.end_angle > 0 /\ new.start_angle < 0
                                   \/ prev.end_angle < 0 /\ new.start_angle > 0
                          THEN 0 ELSE mm(3)]_vars

\* C16 witness: the fill pass has appended a part after a complementary
\* pair, both boundaries sloped and 3 degrees apart, with a kerf of 3 mm.
C16_KerfBetweenNearAngles ==
    /\ pc \in {"fill", "retire"}
    /\ Len(pat.pattern_parts) = 3
    /\ pat.pattern_parts[2].complementary_pair
    /\ ~pat.pattern_parts[3].complementary_pair
    /\ LET prev == pat.pattern_parts[2].part
           new == pat.pattern_parts[3].part
       IN  /\ BothSloped(prev, new)
           /\ Abs(Abs(prev.end_angle) - Abs(new.start_angle)) = 3
           /\ pat.current_length =
                  pat.pattern_parts[2].cut_position + prev.length + new.length + mm(3)

(***************************************************************************)
(* C17.  The fill pass goes through the parts that fit the stock in        *)
(* descending order of length, passing over those already in the pattern.  *)
(* A part is appended only if current_length + its length + the kerf is at *)
(* most the stock length + 0.1 mm; the first part for which it is not ends *)
(* the pass, whatever parts come after it; and every part the iteration    *)
(* did not take is still in remaining_parts when the iteration ends.       *)
(***************************************************************************)
DescendingLengths(ps) == \A n \in 1..(Len(ps) - 1) : ps[n].length >= ps[n + 1].length

FillPassRule ==
    (pc = "fill" /\ fill_k <= Len(valid_parts_for_this_stock)) =>
        LET part == valid_parts_for_this_stock[fill_k]
            fits == pat.current_length + part.length + FillKerf(pat.pattern_parts, part)
                        <= best_stock + TOLERANCE
        IN  /\ fill_k' = fill_k + 1
            /\ IF InSeq(part, pat.parts_to_remove)
               THEN pat'.pattern_parts = pat.pattern_parts /\ pc' = "fill"
               ELSE IF fits
               THEN /\ PartsOf(pat'.pattern_parts) = Append(PartsOf(pat.pattern_parts), part)
                    /\ pat'.parts_to_remove = Append(pat.parts_to_remove, part)
                    /\ pat'.current_length =
                           pat.current_length + part.length + FillKerf(pat.pattern_parts, part)
               ELSE /\ pat'.pattern_parts = pat.pattern_parts
                    /\ pat'.parts_to_remove = pat.parts_to_remove
                    /\ pc' = "retire"

UnusedPartsStay ==
    pc = "retire" =>
        \A n \in 1..Len(remaining_parts) :
            ~InSeq(remaining_parts[n], pat.parts_to_remove) =>
                InSeq(remaining_parts[n], remaining_parts')

C17_FillPassGreedy ==
    /\ [](pc \in {"pair", "fill", "retire"} =>
              /\ DescendingLengths(valid_parts_for_this_stock)
              /\ \A n \in 1..Len(remaining_parts) :
                     remaining_parts[n].length <= best_stock =>
                         InSeq(remaining_parts[n], valid_parts_for_this_stock))
    /\ [][FillPassRule /\ UnusedPartsStay]_vars

\* C17 witness: the fill pass has ended at a part that does not fit, with
\* a shorter part after it that it never came to, and both are still in
\* remaining_parts after the used parts have left.
C17_StoppedAtFirstMisfit ==
    /\ pc \in {"validate", "while"}
    /\ fill_k <= Len(valid_parts_for_this_stock)
    /\ fill_k > 1
    /\ ~InSeq(valid_parts_for_this_stock[fill_k - 1], pat.parts_to_remove)
    /\ valid_parts_for_this_stock[fill_k].length
           < valid_parts_for_this_stock[fill_k - 1].length
    /\ InSeq(valid_parts_for_this_stock[fill_k - 1], remaining_parts)
    /\ InSeq(valid_parts_for_this_stock[fill_k], remaining_parts)

(***************************************************************************)
(* C18.  When the pairing pass commits a pair, the two parts are appended  *)
(* one after the other, the second marked as the pair's second part;       *)
(* current_length grows by exactly length1 + length2 - shared_mm; the      *)
(* second part's cut position is the first part's cut position + length1   *)
(* - shared_mm; and the new current_length is at most the stock length of  *)
(* the pattern.                                                            *)
(***************************************************************************)
PairCommits == pc = "pair" /\ pat'.pattern_parts # pat.pattern_parts

PairCommitRule ==
    PairCommits =>
        LET n == Len(pat.pattern_parts)
            part1 == valid_parts_for_this_stock[pair_i]
            part2 == valid_parts_for_this_stock[pair_j]
            shared_mm == PairGeometry(part1, part2, PairingType(part1, part2)).shared
        IN  /\ pair_j > pair_i
            /\ Len(pat'.pattern_parts) = n + 2
            /\ SubSeq(pat'.pattern_parts, 1, n) = pat.pattern_parts
            /\ pat'.pattern_parts[n + 1].part = part1
            /\ pat'.pattern_parts[n + 2].part = part2
            /\ ~pat'.pattern_parts[n + 1].complementary_pair
            /\ pat'.pattern_parts[n + 2].complementary_pair
            /\ pat'.current_length =
                   pat.current_length + part1.length + part2.length - shared_mm
            /\ pat'.pattern_parts[n + 1].cut_position = pat.cut_position
            /\ pat'.pattern_parts[n + 2].cut_position =
                   pat.cut_position + part1.length - shared_mm
            /\ pat'.current_length <= best_stock
            /\ pat'.parts_to_remove = pat.parts_to_remove \o <<part1, part2>>

C18_PairCommit == [][PairCommitRule]_vars

\* C18 witness: a committed pair that shares material, so that the used
\* length is below the sum of the two lengths.
C18_PairCommitted ==
    /\ pc \in {"pair", "fill"}
    /\ Len(pat.pattern_parts) = 2
    /\ pat.pattern_parts[2].complementary_pair
    /\ pat.current_length < pat.pattern_parts[1].length + pat.pattern_parts[2].length
    /\ pat.current_length = pat.pattern_parts[2].cut_position + pat.pattern_parts[2].length

(***************************************************************************)
(* C19.  Two parts match as a complementary pair exactly if, for one of    *)
(* the cases start-end, end-start, end-end and start-start, both ends of   *)
(* the case are sloped and their absolute angles are less than 5 degrees   *)
(* apart, where start-start also needs angles of opposite signs and the    *)
(* other three cases do not.  Checked on two parts and a stock that holds  *)
(* any two of them, where the pairing pass commits a pair exactly if the   *)
(* two parts match.                                                        *)
(***************************************************************************)
NearAngles(a, b) == Abs(Abs(a) - Abs(b)) < 5

MatchRule(part1, part2) ==
    \/ /\ part1.start_has_slope /\ part2.end_has_slope
       /\ NearAngles(part1.start_angle, part2.end_angle)
    \/ /\ part1.end_has_slope /\ part2.start_has_slope
       /\ NearAngles(part1.end_angle, part2.start_angle)
    \/ /\ part1.end_has_slope /\ part2.end_has_slope
       /\ NearAngles(part1.end_angle, part2.end_angle)
    \/ /\ part1.start_has_slope /\ part2.start_has_slope
       /\ NearAngles(part1.start_angle, part2.start_angle)
       /\ part1.start_angle * part2.start_angle < 0

PairPassDone == pc = "fill" /\ fill_k = 1 /\ Len(valid_parts_for_this_stock) = 2

C19_PairMatchRule ==
    PairPassDone =>
        /\ iteration_count = 1
        /\ HasComplementaryPairs(pat.pattern_parts)
               => MatchRule(valid_parts_for_this_stock[1], valid_parts_for_this_stock[2])
        /\ ( /\ MatchRule(valid_parts_for_this_stock[1], valid_parts_for_this_stock[2])
             /\ PairGeometry(valid_parts_for_this_stock[1], valid_parts_for_this_stock[2],
                             PairingType(valid_parts_for_this_stock[1],
                                         valid_parts_for_this_stock[2])).combined <= best_stock )
               => HasComplementaryPairs(pat.pattern_parts)
        /\ (PairingType(valid_parts_for_this_stock[1], valid_parts_for_this_stock[2]) # "none")
               <=> MatchRule(valid_parts_for_this_stock[1], valid_parts_for_this_stock[2])

\* C19 witness: two parts whose only slopes are end cuts of the same sign
\* have been committed as a pair.
C19_SameSignEndsPaired ==
    /\ PairPassDone
    /\ HasComplementaryPairs(pat.pattern_parts)
    /\ LET part1 == valid_parts_for_this_stock[1]
           part2 == valid_parts_for_this_stock[2]
       IN  /\ ~part1.start_has_slope /\ ~part2.start_has_slope
           /\ part1.end_angle * part2.end_angle > 0

(***************************************************************************)
(* C20.  For every matched pair the shared length is at most 90% of the    *)
(* shorter part's length, and the combined length, length1 + length2 -     *)
(* shared_mm, is not negative and not below the longer part's length.      *)
(* Checked on the committed pairs of two parts: the shared length is what  *)
(* the second part's cut position lies before the first part's end, the    *)
(* combined length what the pair adds to current_length.                   *)
(***************************************************************************)
SharedOf(pattern) == pattern[1].cut_position + pattern[1].length - pattern[2].cut_position

C20_SharedLengthCapped ==
    (PairPassDone /\ HasComplementaryPairs(pat.pattern_parts)) =>
        LET length1 == pat.pattern_parts[1].length
            length2 == pat.pattern_parts[2].length
            g == PairGeometry(pat.pattern_parts[1].part, pat.pattern_parts[2].part,
                              PairingType(pat.pattern_parts[1].part, pat.pattern_parts[2].part))
        IN  /\ g.shared = SharedOf(pat.pattern_parts)
            /\ g.combined = pat.current_length
            /\ 10 * SharedOf(pat.pattern_parts) <= 9 * Min(length1, length2)
            /\ pat.current_length = length1 + length2 - SharedOf(pat.pattern_parts)
            /\ pat.current_length >= 0
            /\ pat.current_length >= Max(length1, length2)

\* C20 witness: a committed pair whose shared length is the cap, 90% of
\* the shorter part, where depth * tan(angle) is more than that.
C20_CapApplied ==
    /\ PairPassDone
    /\ HasComplementaryPairs(pat.pattern_parts)
    /\ pat.pattern_parts[1].length > pat.pattern_parts[2].length
    /\ 10 * SharedOf(pat.pattern_parts) = 9 * pat.pattern_parts[2].length
    /\ pat.current_length < pat.pattern_parts[1].length + pat.pattern_parts[2].length

(***************************************************************************)
(* C21.  A matched pair whose combined length fits none of the stock       *)
(* lengths is skipped without error: the pattern (its parts, its used      *)
(* length, its cut position and the parts to remove) is as before, no part *)
(* is rejected or leaves the remaining parts, no response is raised, and   *)
(* the inner loop goes on to the next candidate for part1; the pairing     *)
(* pass is left only for the fill pass.                                    *)
(***************************************************************************)
\* The pass of the inner loop is about a matched pair that fits no stock.
PairFitsNoStock ==
    /\ pc = "pair" /\ pair_j > 0 /\ pair_j <= Len(valid_parts_for_this_stock)
    /\ LET part1 == valid_parts_for_this_stock[pair_i]
           part2 == valid_parts_for_this_stock[pair_j]
           pairing_type == PairingType(part1, part2)
       IN  /\ ~InSeq(part2, pat.parts_to_remove)
           /\ pairing_type # "none"
           /\ BestStockForPair(PairGeometry(part1, part2, pairing_type).combined,
                               stock_lengths_list) = None

PairSkipRule ==
    /\ PairFitsNoStock =>
           /\ pat'.pattern_parts = pat.pattern_parts
           /\ pat'.current_length = pat.current_length
           /\ pat'.cut_position = pat.cut_position
           /\ pat'.total_parts_length = pat.total_parts_length
           /\ pat'.parts_to_remove = pat.parts_to_remove
           /\ UNCHANGED <<remaining_parts, rejected_parts, cutting_patterns, response>>
           /\ pc' = "pair" /\ pair_i' = pair_i /\ pair_j' = pair_j + 1
    /\ pc = "pair" => pc' \in {"pair", "fill"}

C21_UnfittingPairSkipped == [][PairSkipRule]_vars

\* C21 witness: the inner loop has passed a matched candidate that fits no
\* stock, and neither part of it is in the pattern.
C21_PairSkipped ==
    /\ pc = "pair" /\ pair_j > pair_i + 1
    /\ LET part1 == valid_parts_for_this_stock[pair_i]
           part2 == valid_parts_for_this_stock[pair_j - 1]
           pairing_type == PairingType(part1, part2)
       IN  /\ pairing_type # "none"
           /\ BestStockForPair(PairGeometry(part1, part2, pairing_type).combined,
                               stock_lengths_list) = None
           /\ \A k \in 1..Len(pat.pattern_parts) :
                  pat.pattern_parts[k].part \notin {part1, part2}
           /\ InSeq(part1, remaining_parts) /\ InSeq(part2, remaining_parts)

(***************************************************************************)
(* C22.  The validation of an assembled pattern that passes on to be       *)
(* recorded: without a complementary pair, the pattern is cut to the parts *)
(* before the first one whose replay exceeds stock_length + 0.1 mm and its *)
(* used length becomes the replayed length of the parts kept; with a       *)
(* complementary pair, all parts and the length of the pairing are kept.   *)
(***************************************************************************)
\* The replayed length of the first k parts of a pattern without pairs: the
\* lengths plus the replay's kerf at every boundary.
RECURSIVE ReplayedLength(_, _)
ReplayedLength(pattern, k) ==
    IF k = 0 THEN 0
    ELSE ReplayedLength(pattern, k - 1) + pattern[k].length
             + ReplayKerf(SubSeq(pattern, 1, k - 1), pattern[k].part)

\* How many parts come before the first whose replay exceeds the stock.
ReplayKeeps(pattern, stock) ==
    SetMax({ k \in 0..Len(pattern) :
                 \A j \in 1..k : ReplayedLength(pattern, j) <= stock + TOLERANCE })

ValidationPolicy ==
    (pc = "validate" /\ pc' = "save") =>
        IF HasComplementaryPairs(pat.pattern_parts)
        THEN /\ pat'.pattern_parts = pat.pattern_parts
             /\ pat'.current_length = pat.current_length
        ELSE LET k == ReplayKeeps(pat.pattern_parts, best_stock)
             IN  /\ pat'.pattern_parts = SubSeq(pat.pattern_parts, 1, k)
                 /\ pat'.current_length = ReplayedLength(pat.pattern_parts, k)

C22_ValidationPolicy == [][ValidationPolicy]_vars

\* C22 witness: the validation has cut a pattern without pairs short, and
\* the used length is the replayed length of the parts kept.
C22_ReplayDroppedPart ==
    /\ pc = "save"
    /\ ~HasComplementaryPairs(pat.pattern_parts)
    /\ Len(pat.pattern_parts) < Len(pat.parts_to_remove)
    /\ pat.current_length = ReplayedLength(pat.pattern_parts, Len(pat.pattern_parts))

(***************************************************************************)
(* C23.  The nesting result of a profile depends only on the profile's own *)
(* parts and the stock lengths: every entry of the report is the result of *)
(* nesting the profile's parts on their own, from fresh locals, whatever   *)
(* other profiles the request holds and wherever the profile comes in the  *)
(* profile loop.                                                           *)
(***************************************************************************)
\* The locals of the profile loop for the parts ps, before the while loop.
LocalStart(ps) ==
    [parts |-> ps, remaining_parts |-> ps, cutting_patterns |-> <<>>,
     stock_lengths_used |-> <<>>, rejected_parts |-> <<>>,
     max_iterations |-> Len(ps) * ITERATION_FACTOR, iteration_count |-> 0,
     best_stock |-> None, valid |-> <<>>, pat |-> EmptyPattern,
     pair_i |-> 0, pair_j |-> 0, fill_k |-> 0, pc |-> "while"]

\* One step of the while loop on the locals alone.
LocalStep(L, stocks) ==
    CASE L.pc = "while" ->
           IF L.remaining_parts # <<>> /\ L.iteration_count < L.max_iterations
           THEN [L EXCEPT !.iteration_count = @ + 1, !.pc = "select"]
           ELSE [L EXCEPT !.pc = "totals"]
      [] L.pc = "select" ->
           LET longest_stock == stocks[Len(stocks)]
               rest == RemoveAll(L.remaining_parts,
                                 OversizedParts(L.remaining_parts, longest_stock))
               stock == BestStock(rest, stocks)
               valid == SelectSeq(rest, LAMBDA p : p.length <= stock)
               R == [L EXCEPT !.rejected_parts =
                                  @ \o OversizedRejections(L.remaining_parts, longest_stock),
                              !.remaining_parts = rest]
           IN  IF rest = <<>> THEN [R EXCEPT !.pc = "totals"]
               ELSE IF stock = None \/ valid = <<>>
               THEN [R EXCEPT !.best_stock = stock, !.pc = "totals"]
               ELSE [R EXCEPT !.best_stock = stock,
                              !.valid = SortByLengthDesc(valid),
                              !.pat = EmptyPattern,
                              !.pair_i = 1, !.pair_j = 0, !.fill_k = 1,
                              !.pc = IF Len(valid) >= 2 THEN "pair" ELSE "fill"]
      [] L.pc = "pair" /\ L.pair_j = 0 ->
           IF L.pair_i > Len(L.valid) THEN [L EXCEPT !.pc = "fill"]
           ELSE IF L.pat.current_length > L.best_stock + TOLERANCE
           THEN [L EXCEPT !.pc = "fill"]
           ELSE IF \/ InSeq(L.valid[L.pair_i], L.pat.parts_to_remove)
                   \/ ~(L.valid[L.pair_i].start_has_slope \/ L.valid[L.pair_i].end_has_slope)
           THEN [L EXCEPT !.pair_i = @ + 1]
           ELSE [L EXCEPT !.pair_j = L.pair_i + 1]
      [] L.pc = "pair" /\ L.pair_j > 0 ->
           IF L.pair_j > Len(L.valid) THEN [L EXCEPT !.pair_i = @ + 1, !.pair_j = 0]
           ELSE LET r == IF InSeq(L.valid[L.pair_j], L.pat.parts_to_remove)
                         THEN [L.pat EXCEPT !.next = "continue"]
                         ELSE PairAttempt(L.valid[L.pair_i], L.valid[L.pair_j], L.pat,
                                          L.best_stock, stocks)
                IN  IF r.next = "continue"
                    THEN [L EXCEPT !.pat = r, !.pair_j = @ + 1]
                    ELSE [L EXCEPT !.pat = r, !.pair_i = @ + 1, !.pair_j = 0]
      [] L.pc = "fill" ->
           IF L.fill_k > Len(L.valid) THEN [L EXCEPT !.pc = "retire"]
           ELSE LET r == IF InSeq(L.valid[L.fill_k], L.pat.parts_to_remove)
                         THEN [L.pat EXCEPT !.next = "continue"]
                         ELSE FillAttempt(L.valid[L.fill_k], L.pat, L.best_stock)
                IN  [L EXCEPT !.pat = r, !.fill_k = @ + 1,
                              !.pc = IF r.next = "continue" THEN "fill" ELSE "retire"]
      [] L.pc = "retire" ->
           LET rest == RemoveAll(L.remaining_parts, L.pat.parts_to_remove)
               on == IF L.pat.pattern_parts = <<>> THEN "while" ELSE "validate"
           IN  IF L.pat.parts_to_remove # <<>>
               THEN [L EXCEPT !.remaining_parts = rest, !.pc = on]
               ELSE IF rest # <<>> /\ rest[1].length > L.best_stock
               THEN [L EXCEPT !.remaining_parts = Tail(rest), !.pc = on]
               ELSE [L EXCEPT !.remaining_parts = rest, !.pc = "totals"]
      [] L.pc = "validate" ->
           LET reason == PatternRejection(L.pat.pattern_parts, L.pat.current_length,
                                          L.pat.total_parts_length, L.best_stock)
               v == Validated(L.pat.pattern_parts, L.pat.current_length,
                              L.pat.total_parts_length, L.best_stock)
           IN  IF reason # "none"
               THEN [L EXCEPT !.rejected_parts =
                                  @ \o PatternRejections(L.pat.pattern_parts,
                                                         L.best_stock, reason),
                              !.remaining_parts =
                                  RemoveAll(@, PartsOf(L.pat.pattern_parts)),
                              !.pc = "while"]
               ELSE [L EXCEPT !.pat.pattern_parts = v.pattern_parts,
                              !.pat.current_length = v.current_length,
                              !.pat.total_parts_length = v.total_parts_length,
                              !.pc = "save"]
      [] L.pc = "save" ->
           [L EXCEPT !.cutting_patterns =
                         Append(@, CuttingPattern(L.pat.pattern_parts,
                                                  L.pat.current_length, L.best_stock)),
                     !.stock_lengths_used = CountStock(@, L.best_stock),
                     !.pc = "while"]

\* The locals after the while loop.
RECURSIVE LocalRun(_, _)
LocalRun(L, stocks) ==
    IF L.pc = "totals" THEN L ELSE LocalRun(LocalStep(L, stocks), stocks)

\* The report entry of a profile nested on its own.
NestedAlone(name, ps, stocks) ==
    LET L == LocalRun(LocalStart(ps), stocks)
    IN  ProfileNesting(name, ps, L.cutting_patterns, L.stock_lengths_used,
                       L.rejected_parts)

C23_ProfilesIndependent ==
    (pc = "done" /\ response.status = 200) =>
        /\ \A n \in 1..Len(response.profiles) :
               LET name == response.profiles[n].profile_name
               IN  response.profiles[n] =
                       NestedAlone(name, PartsOfProfile(elements, name, Len(elements)),
                                   SortedAsc(stock_lengths))
        /\ \A n \in 1..Len(profiles) :
               PartsOfProfile(elements, profiles[n], Len(elements)) # <<>> =>
                   Cardinality({ k \in 1..Len(response.profiles) :
                                     response.profiles[k].profile_name = profiles[n] }) = 1

\* C23 witness: a report of two profiles where the first has a rejection
\* and recorded patterns and the second has recorded patterns.
C23_TwoProfilesReported ==
    /\ pc = "done" /\ response.status = 200
    /\ Len(response.profiles) = 2
    /\ response.profiles[1].rejected_parts # <<>>
    /\ response.profiles[1].cutting_patterns # <<>>
    /\ response.profiles[2].cutting_patterns # <<>>

(***************************************************************************)
(* C24.  An end cut is classified as sloped exactly if its deviation from  *)
(* straight is more than 5 degrees and its confidence is more than 0.5,    *)
(* the deviation being |angle - 90| for |angle| from 60 to 120 and |angle| *)
(* otherwise; an end without a cut is classified as straight.              *)
(***************************************************************************)
SlopedByRule(cut) ==
    /\ cut # NoCut
    /\ cut.confidence > 50
    /\ IF Abs(cut.angle_deg) >= 60 /\ Abs(cut.angle_deg) <= 120
       THEN cut.angle_deg - 90 > 5 \/ 90 - cut.angle_deg > 5
       ELSE cut.angle_deg > 5 \/ cut.angle_deg < -5

C24_SlopeClassification ==
    \A g \in 1..Len(parts_by_profile) :
        \A n \in 1..Len(parts_by_profile[g].parts) :
            LET part == parts_by_profile[g].parts[n]
                e == elements[part.product_id]
            IN  /\ part.start_has_slope <=> SlopedByRule(e.start)
                /\ part.end_has_slope <=> SlopedByRule(e.end)
                /\ e.start = NoCut => ~part.start_has_slope
                /\ e.end = NoCut => ~part.end_has_slope

\* C24 witness: an extracted part whose start cut of -88 degrees is sloped
\* and whose end cut of 84 degrees at a confidence of 0.5 is straight.
C24_LimitsClassified ==
    \E g \in 1..Len(parts_by_profile) :
        \E n \in 1..Len(parts_by_profile[g].parts) :
            LET part == parts_by_profile[g].parts[n]
                e == elements[part.product_id]
            IN  /\ e.start = Cut(-88, 51) /\ part.start_has_slope
                /\ e.end = Cut(84, 50) /\ ~part.end_has_slope

(***************************************************************************)
(* C25.  After the oversized parts are removed the selected stock is at    *)
(* least as long as every remaining part, so the parts that fit it are all *)
(* the remaining parts, and every iteration that reaches the building of a *)
(* pattern records a pattern with at least one part: the building goes on  *)
(* to the validation, and the validation to the recording.                 *)
(***************************************************************************)
StockHoldsEveryPart ==
    pc \in {"pair", "fill"} =>
        /\ \A n \in 1..Len(remaining_parts) : remaining_parts[n].length <= best_stock
        /\ Len(valid_parts_for_this_stock) = Len(remaining_parts)
        /\ \A n \in 1..Len(remaining_parts) :
               InSeq(remaining_parts[n], valid_parts_for_this_stock)

IterationRecords ==
    /\ (pc = "select" /\ remaining_parts' # <<>>) => pc' \in {"pair", "fill"}
    /\ pc = "retire" => (pc' = "validate" /\ pat.pattern_parts # <<>>)
    /\ pc = "validate" => (pc' = "save" /\ pat'.pattern_parts # <<>>)

C25_IterationRecordsPattern == []StockHoldsEveryPart /\ [][IterationRecords]_vars

(***************************************************************************)
(* C26.  If the n parts that remain at the start of an iteration, after    *)
(* the oversized parts are removed, fit the selected stock with 3 mm       *)
(* between neighbours (sum of lengths + (n - 1) x 3 mm <= stock length),   *)
(* the pattern of the iteration holds all n parts: the building takes them *)
(* all, the validation passes the pattern on and keeps them all, and no    *)
(* part remains, so that the loop ends.                                    *)
(***************************************************************************)
\* The parts fit the stock together with the kerf estimate.
FitTogether(ps, stock) == SumLengths(ps) + EstimatedKerf(Len(ps)) <= stock

\* The parts of the iteration fit the stock together: before the used parts
\* leave remaining_parts, and after.
IterationFits ==
    \/ pc \in {"pair", "fill", "retire"} /\ FitTogether(remaining_parts, best_stock)
    \/ /\ pc \in {"validate", "save"}
       /\ FitTogether(pat.parts_to_remove \o remaining_parts, best_stock)

AllPartsInPattern ==
    (IterationFits /\ pc \in {"validate", "save"}) =>
        /\ remaining_parts = <<>>
        /\ Len(pat.pattern_parts) = Len(pat.parts_to_remove)
        /\ \A n \in 1..Len(pat.parts_to_remove) :
               \E k \in 1..Len(pat.pattern_parts) :
                   pat.pattern_parts[k].part = pat.parts_to_remove[n]

FittingIterationRecords ==
    IterationFits =>
        /\ pc = "retire" => (pc' = "validate" /\ remaining_parts' = <<>>)
        /\ pc = "validate" => pc' = "save"
        /\ pc = "save" =>
               /\ Len(cutting_patterns') = Len(cutting_patterns) + 1
               /\ Len(cutting_patterns'[Len(cutting_patterns')].parts)
                      = Len(pat.parts_to_remove)
               /\ remaining_parts' = <<>>

C26_FittingPartsShareOnePattern == []AllPartsInPattern /\ [][FittingIterationRecords]_vars

(***************************************************************************)
(* C27.  For every recorded pattern without a complementary pair the       *)
(* material used behind the reported waste is the sum of the placed parts' *)
(* lengths plus 3 mm for every boundary between neighbours, except the     *)
(* boundaries where both ends are sloped and the angles sum to within 2    *)
(* degrees of zero; a boundary between two straight ends is charged 3 mm.  *)
(***************************************************************************)
\* What a boundary between two neighbours is charged.
BoundaryCharge(prev, part) ==
    IF /\ prev.end_has_slope /\ part.start_has_slope
       /\ Abs(prev.end_angle + part.start_angle) <= 2
    THEN 0 ELSE KERF

\* The lengths of the placed parts plus the charges of their boundaries.
RECURSIVE ChargedLength(_)
ChargedLength(pattern) ==
    IF Len(pattern) <= 1 THEN SumLengths(pattern)
    ELSE ChargedLength(Front(pattern)) + pattern[Len(pattern)].length
             + BoundaryCharge(pattern[Len(pattern) - 1].part, pattern[Len(pattern)].part)

\* As stated: the waste is the stock length less the charged length.
C27_UsedIsChargedLength ==
    \A n \in 1..Len(cutting_patterns) :
        ~HasComplementaryPairs(cutting_patterns[n].parts) =>
            cutting_patterns[n].waste =
                cutting_patterns[n].stock_length - ChargedLength(cutting_patterns[n].parts)

\* C27 as amended: the material used is the charged length capped at the
\* stock length, which the charged length exceeds by at most 0.1 mm.
C27_UsedIsCappedChargedLength ==
    \A n \in 1..Len(cutting_patterns) :
        ~HasComplementaryPairs(cutting_patterns[n].parts) =>
            /\ cutting_patterns[n].waste =
                   cutting_patterns[n].stock_length
                       - Min(ChargedLength(cutting_patterns[n].parts),
                             cutting_patterns[n].stock_length)
            /\ ChargedLength(cutting_patterns[n].parts)
                   <= cutting_patterns[n].stock_length + TOLERANCE
            /\ used_lengths[n] = ChargedLength(cutting_patterns[n].parts)

\* C27 witness: a recorded pattern of two parts that meet with straight
\* ends, whose waste is the stock length less both lengths and 3 mm.
C27_StraightBoundaryCharged ==
    \E n \in 1..Len(cutting_patterns) :
        LET c == cutting_patterns[n]
        IN  /\ Len(c.parts) = 2
            /\ ~c.parts[1].part.end_has_slope /\ ~c.parts[2].part.start_has_slope
            /\ c.waste > 0
            /\ c.waste = c.stock_length - c.parts[1].length - c.parts[2].length - KERF

(***************************************************************************)
(* C28.  In every recorded pattern the first part is placed at 0, the cut  *)
(* positions of the parts increase strictly along the list, and every      *)
(* part ends (cut_position + length) at most 0.1 mm past the stock length. *)
(***************************************************************************)
C28_CutPositionsOrdered ==
    \A c \in 1..Len(cutting_patterns) :
        LET pattern == cutting_patterns[c].parts
        IN  /\ pattern # <<>>
            /\ pattern[1].cut_position = 0
            /\ \A n \in 2..Len(pattern) :
                   pattern[n - 1].cut_position < pattern[n].cut_position
            /\ \A n \in 1..Len(pattern) :
                   pattern[n].cut_position + pattern[n].length
                       <= cutting_patterns[c].stock_length + TOLERANCE

\* C28 witness: a recorded pattern of three parts, the second of which is
\* the second part of a pair and starts before the first part ends.
C28_PairThenPartRecorded ==
    \E c \in 1..Len(cutting_patterns) :
        LET pattern == cutting_patterns[c].parts
        IN  /\ Len(pattern) = 3
            /\ pattern[2].complementary_pair
            /\ pattern[2].cut_position < pattern[1].cut_position + pattern[1].length
            /\ pattern[3].cut_position > pattern[2].cut_position
(***************************************************************************)
(* C29: nest_plates_on_multiple_stocks terminates, and on return every     *)
(* input plate is on exactly one returned sheet or in the returned list of *)
(* unnested plates, never both and never neither; every returned sheet     *)
(* holds at least one plate and there are at most max_sheets sheets.       *)
(***************************************************************************)
\* How often the plate is placed on the sheets.
RECURSIVE TimesPlaced(_, _)
TimesPlaced(plate, sheets) ==
    IF sheets = <<>> THEN 0
    ELSE Cardinality({ n \in 1..Len(Head(sheets).placed_plates) :
                          Head(sheets).placed_plates[n].plate = plate })
         + TimesPlaced(plate, Tail(sheets))

TimesUnnested(plate) ==
    Cardinality({ n \in 1..Len(remaining_plates) : remaining_plates[n] = plate })

PlatesPartitioned ==
    pc = "returned" =>
        /\ \A n \in 1..Len(plates) :
              TimesPlaced(plates[n], results) + TimesUnnested(plates[n]) = 1
        /\ \A k \in 1..Len(results) : results[k].placed_plates # <<>>
        /\ Len(results) <= max_sheets

C29_TerminatesWithPartition == <>(pc = "returned") /\ []PlatesPartitioned

\* A return with two sheets and an unnested plate.
C29_SheetsAndUnnested ==
    /\ pc = "returned"
    /\ Len(results) >= 2
    /\ remaining_plates # <<>>

(***************************************************************************)
(* C30: in the result of greedy_nesting every placed plate lies inside the *)
(* stock sheet at least gap away from each edge, and the bounding          *)
(* rectangles of any two placed plates are at least gap apart.             *)
(***************************************************************************)
InsideSheet(q, sheet, gap) ==
    /\ q.x >= gap
    /\ q.y >= gap
    /\ q.x + q.plate.width + gap <= sheet.stock_width
    /\ q.y + q.plate.length + gap <= sheet.stock_length

GapApart(q1, q2, gap) ==
    \/ q1.x + q1.plate.width + gap <= q2.x
    \/ q2.x + q2.plate.width + gap <= q1.x
    \/ q1.y + q1.plate.length + gap <= q2.y
    \/ q2.y + q2.plate.length + gap <= q1.y

WellPlaced(sheet, gap) ==
    /\ \A n \in 1..Len(sheet.placed_plates) :
          InsideSheet(sheet.placed_plates[n], sheet, gap)
    /\ \A n, m \in 1..Len(sheet.placed_plates) :
          n < m => GapApart(sheet.placed_plates[n], sheet.placed_plates[m], gap)

C30_PlatesInsideAndApart ==
    /\ \A k \in 1..Len(results) : WellPlaced(results[k], GAP)
    /\ \A g \in Gaps : \A c \in 1..Len(stock_configs) :
          WellPlaced(GreedyNesting(plates, stock_configs[c].width,
                                   stock_configs[c].length, g), g)

\* A sheet with a row of a taller and a shorter plate and a plate below.
C30_SecondRowUnderUnevenRow ==
    \E k \in 1..Len(results) :
        LET placed == results[k].placed_plates
        IN  /\ Len(placed) = 3
            /\ placed[1].y = placed[2].y
            /\ placed[1].plate.length > placed[2].plate.length
            /\ placed[3].y > placed[1].y

====
